---------------------------- MODULE Spec2Model ----------------------------
(***************************************************************************)
(* Log Viewer: the file tailer (FileManager / TailReader), the filter      *)
(* engine (FilterManager), the line buffer and the view controller         *)
(* (LogViewerApp), modelled from src/src/managers, src/src/ui and the      *)
(* single-file revision src/FileUpdater.py.                                *)
(*                                                                         *)
(* Bytes and characters are integers (a byte 0..255, a character its code  *)
(* point); byte strings, text, lines and patterns are sequences of them.   *)
(* Python's None is the string "None" for names and 0 for handles/inodes.  *)
(***************************************************************************)
EXTENDS Integers, Sequences, FiniteSets, TLC

VARIABLES
    disk,     \* the file system: what the monitored path names, every file's bytes
    fm,       \* the FileManager object
    flt,      \* the FilterManager object
    app,      \* the LogViewerApp object (buffer, text widget, filter controls)
    timers,   \* Tk's pending after() jobs
    deb,      \* history of the debounce: edits and rebuilds of the current burst
    old,      \* the FileUpdater.py revision of the viewer (bounded deque)
    cfg,      \* the ConfigManager class, its current instance and the config file
    obs       \* what the last operation returned, and history kept for the properties

vars == <<disk, fm, flt, app, timers, deb, old, cfg, obs>>

-----------------------------------------------------------------------------
(* Bounds of the model *)

MaxFile == 2        \* longest file the bare tailer reads, in bytes
MaxViewFile == 3    \* longest file the viewer shows, in bytes
MaxInode == 2       \* files the path names, one after the other
MaxFsEvents == 2    \* truncations, removals and replacements under the bare tailer
MaxViewEvents == 1  \* truncations under the viewer
MaxFilterFile == 2  \* longest file the viewer shows while its filter is edited
MaxEdits == 3       \* filter edits counted in one burst
MaxAppends == 3     \* chunks appended to the line buffer of FileUpdater.py
MaxModeFile == 2    \* longest file the viewer shows while mode and case are changed
MaxHead == 4        \* longest file opened to have its first bytes classified
MaxCodecFile == 4   \* longest file read under a given encoding name
MaxSwitchFile == 1  \* longest file the viewer shows or switches to
MaxPollFile == 1      \* longest file the viewer polls while its timer is watched
MaxEncodedFile == 5   \* longest file the viewer shows when files of several encodings are opened
MaxPauseFile == 3     \* longest file the viewer shows while it is paused and resumed
MaxHistoryCalls == 23  \* set_filter and clear_filter calls on one FilterManager

-----------------------------------------------------------------------------
(* Characters and text *)

NUL == 0
LF == 10
CR == 13
REPLACEMENT == 65533      \* U+FFFD, what errors="replace" substitutes

Min2(a, b) == IF a <= b THEN a ELSE b

RECURSIVE Concat(_)
Concat(ss) == IF ss = <<>> THEN <<>> ELSE Head(ss) \o Concat(Tail(ss))

Count(s, x) == Cardinality({i \in 1..Len(s) : s[i] = x})

StartsWith(s, p) == Len(p) <= Len(s) /\ SubSeq(s, 1, Len(p)) = p
EndsWith(s, p) == Len(p) <= Len(s) /\ SubSeq(s, Len(s) - Len(p) + 1, Len(s)) = p
Contains(s, p) == \E i \in 0..(Len(s) - Len(p)) : SubSeq(s, i + 1, i + Len(p)) = p

\* str.lower() on the characters of the model (ASCII letters fold, the rest stay)
LowerChar(c) == IF c >= 65 /\ c <= 90 THEN c + 32 ELSE c
lower(s) == [i \in 1..Len(s) |-> LowerChar(s[i])]

\* the characters str.splitlines() breaks a line at
IsLineBreak(c) == c \in {10, 11, 12, 13, 28, 29, 30, 133, 8232, 8233}

\* str.splitlines(True): the lines of s with their terminators kept; "\r\n" is
\* one terminator; a last line without terminator is a line too
RECURSIVE splitlines(_)
splitlines(s) ==
    IF s = <<>> THEN <<>>
    ELSE LET brk == {i \in 1..Len(s) : IsLineBreak(s[i])}
         IN IF brk = {} THEN <<s>>
            ELSE LET i == CHOOSE k \in brk : \A m \in brk : k <= m
                     e == IF s[i] = CR /\ i < Len(s) /\ s[i + 1] = LF THEN i + 1 ELSE i
                 IN <<SubSeq(s, 1, e)>> \o splitlines(SubSeq(s, e + 1, Len(s)))


-----------------------------------------------------------------------------
(* Codecs: bytes.decode(encoding, errors="replace") *)

SupportedCodecs == {"utf-8", "utf-8-sig", "utf-16-le", "utf-16-be"}

IsCont(b) == b >= 128 /\ b <= 191                    \* a UTF-8 continuation byte
IsLead3(b) == (b >= 225 /\ b <= 236) \/ b \in {238, 239}   \* lead of a 3-byte sequence

\* UTF-8 with replacement. One-byte and three-byte sequences are decoded; a
\* truncated three-byte sequence is replaced as a whole, any other byte of 128
\* and above by itself (each by one U+FFFD).
RECURSIVE decode_utf8(_)
decode_utf8(data) ==
    IF data = <<>> THEN <<>>
    ELSE LET b == data[1]
             n == Len(data)
         IN IF b < 128 THEN <<b>> \o decode_utf8(Tail(data))
            ELSE IF IsLead3(b) /\ n >= 3 /\ IsCont(data[2]) /\ IsCont(data[3])
                 THEN <<(b - 224) * 4096 + (data[2] - 128) * 64 + (data[3] - 128)>>
                      \o decode_utf8(SubSeq(data, 4, n))
            ELSE IF IsLead3(b) /\ n >= 2 /\ IsCont(data[2])
                 THEN <<REPLACEMENT>> \o decode_utf8(SubSeq(data, 3, n))
            ELSE <<REPLACEMENT>> \o decode_utf8(Tail(data))

\* UTF-16: two bytes a character, a last odd byte replaced
RECURSIVE decode_utf16(_, _)
decode_utf16(data, little) ==
    IF data = <<>> THEN <<>>
    ELSE IF Len(data) = 1 THEN <<REPLACEMENT>>
    ELSE <<IF little THEN data[1] + 256 * data[2] ELSE 256 * data[1] + data[2]>>
         \o decode_utf16(SubSeq(data, 3, Len(data)), little)

\* data.decode(encoding, errors="replace") for a supported codec
decode(data, encoding) ==
    CASE encoding = "utf-8" -> decode_utf8(data)
      [] encoding = "utf-8-sig" ->
            decode_utf8(IF StartsWith(data, <<239, 187, 191>>)
                        THEN SubSeq(data, 4, Len(data)) ELSE data)
      [] encoding = "utf-16-le" -> decode_utf16(data, TRUE)
      [] encoding = "utf-16-be" -> decode_utf16(data, FALSE)

\* except LookupError: data.decode("utf-8", errors="replace")
decode_fallback_utf16(data) == decode(data, "utf-16-le")
decode_fallback(data) == decode(data, "utf-8")

-----------------------------------------------------------------------------
(* FilterManager (src/src/managers/filter_manager.py) *)

MAX_FILTER_HISTORY == 20
DEFAULT_FILTER_MODE == "contains"

MODES == <<"contains", "starts_with", "ends_with", "regex", "exact", "not_contains">>

LPAREN == 40
RPAREN == 41
DOT == 46

\* re.compile on the patterns of the model (letters, ".", "(" and ")"): the
\* pattern compiles unless its parentheses are unbalanced
RECURSIVE ParenDepth(_, _)
ParenDepth(p, depth) ==
    IF depth < 0 THEN -1
    ELSE IF p = <<>> THEN depth
    ELSE ParenDepth(Tail(p), IF p[1] = LPAREN THEN depth + 1
                             ELSE IF p[1] = RPAREN THEN depth - 1 ELSE depth)

re_error(p) ==
    LET d == ParenDepth(p, 0)
    IN IF d = 0 THEN "None"
       ELSE IF d > 0 THEN "missing ), unterminated subpattern"
       ELSE "unbalanced parenthesis"

\* compiled.search(line): the pattern's atoms (groups only group) found at some
\* offset; "." is any character but "\n"; letters compare case-folded under
\* re.IGNORECASE
re_search(rx, line) ==
    LET atoms == SelectSeq(rx.pattern, LAMBDA c : c \notin {LPAREN, RPAREN})
        hit(c, x) == IF c = DOT THEN x # LF
                     ELSE IF rx.ignorecase THEN LowerChar(c) = LowerChar(x)
                     ELSE c = x
    IN \E i \in 0..(Len(line) - Len(atoms)) :
          \A j \in 1..Len(atoms) : hit(atoms[j], line[i + j])

\* compiled_regex = None
NoRegex == [compiled |-> FALSE, pattern |-> <<>>, ignorecase |-> FALSE]

FilterManager_init ==
    [current_filter |-> <<>>, current_mode |-> DEFAULT_FILTER_MODE,
     case_sensitive |-> FALSE, filter_history |-> <<>>,
     compiled_regex |-> NoRegex, last_error |-> "None"]

_add_to_history_unbounded(f, text) ==
    IF text # <<>> /\ \A i \in 1..Len(f.filter_history) : f.filter_history[i] # text
    THEN [f EXCEPT !.filter_history = <<text>> \o @]
    ELSE f

_add_to_history(f, text) ==
    IF text # <<>> /\ \A i \in 1..Len(f.filter_history) : f.filter_history[i] # text
    THEN LET h == <<text>> \o f.filter_history
         IN [f EXCEPT !.filter_history =
                IF Len(h) > MAX_FILTER_HISTORY THEN SubSeq(h, 1, Len(h) - 1) ELSE h]
    ELSE f

_compile_regex(f) ==
    LET g == [f EXCEPT !.compiled_regex = NoRegex, !.last_error = "None"]
    IN IF g.current_mode = "regex" /\ g.current_filter # <<>>
       THEN IF re_error(g.current_filter) = "None"
            THEN [g EXCEPT !.compiled_regex =
                     [compiled |-> TRUE, pattern |-> g.current_filter,
                      ignorecase |-> ~g.case_sensitive]]
            ELSE [g EXCEPT !.last_error = re_error(g.current_filter)]
       ELSE g

set_filter_promoting(f, text, mode, case_sensitive) ==
    LET g == [f EXCEPT !.current_mode = IF mode # "None" THEN mode ELSE @,
                       !.case_sensitive =
                           IF case_sensitive # <<>> THEN case_sensitive[1] ELSE @,
                       !.filter_history = SelectSeq(@, LAMBDA x : x # text)]
    IN IF text # g.current_filter
       THEN [flt |-> _compile_regex(_add_to_history([g EXCEPT !.current_filter = text], text)),
             ret |-> TRUE]
       ELSE [flt |-> g, ret |-> FALSE]

\* set_filter(text, mode, case_sensitive); a mode of "None" and a case_sensitive
\* of <<>> are Python's None, <<b>> is the flag b
set_filter(f, text, mode, case_sensitive) ==
    LET g == [f EXCEPT !.current_mode = IF mode # "None" THEN mode ELSE @,
                       !.case_sensitive =
                           IF case_sensitive # <<>> THEN case_sensitive[1] ELSE @]
    IN IF text # g.current_filter
       THEN [flt |-> _compile_regex(_add_to_history([g EXCEPT !.current_filter = text], text)),
             ret |-> TRUE]
       ELSE [flt |-> g, ret |-> FALSE]

_contains_match(f, line) ==
    IF f.case_sensitive THEN Contains(line, f.current_filter)
    ELSE Contains(lower(line), lower(f.current_filter))

_starts_with_match_anywhere(f, line) ==
    IF f.case_sensitive THEN Contains(line, f.current_filter)
    ELSE Contains(lower(line), lower(f.current_filter))

_starts_with_match(f, line) ==
    IF f.case_sensitive THEN StartsWith(line, f.current_filter)
    ELSE StartsWith(lower(line), lower(f.current_filter))

_ends_with_match(f, line) ==
    IF f.case_sensitive THEN EndsWith(line, f.current_filter)
    ELSE EndsWith(lower(line), lower(f.current_filter))

_regex_match(f, line) ==
    IF f.compiled_regex.compiled THEN re_search(f.compiled_regex, line) ELSE FALSE

_exact_match(f, line) ==
    IF f.case_sensitive THEN line = f.current_filter
    ELSE lower(line) = lower(f.current_filter)

_not_contains_match(f, line) == ~_contains_match(f, line)

matches_unguarded(f, line) ==
    IF f.last_error # "None" THEN FALSE
    ELSE CASE f.current_mode = "contains" -> _contains_match(f, line)
           [] f.current_mode = "starts_with" -> _starts_with_match(f, line)
           [] f.current_mode = "ends_with" -> _ends_with_match(f, line)
           [] f.current_mode = "regex" -> _regex_match(f, line)
           [] f.current_mode = "exact" -> _exact_match(f, line)
           [] f.current_mode = "not_contains" -> _not_contains_match(f, line)
           [] OTHER -> _contains_match(f, line)

matches(f, line) ==
    IF f.current_filter = <<>> THEN TRUE
    ELSE IF f.last_error # "None" THEN FALSE
    ELSE CASE f.current_mode = "contains" -> _contains_match(f, line)
           [] f.current_mode = "starts_with" -> _starts_with_match(f, line)
           [] f.current_mode = "ends_with" -> _ends_with_match(f, line)
           [] f.current_mode = "regex" -> _regex_match(f, line)
           [] f.current_mode = "exact" -> _exact_match(f, line)
           [] f.current_mode = "not_contains" -> _not_contains_match(f, line)
           [] OTHER -> _contains_match(f, line)

get_filter_info(f) ==
    [text |-> f.current_filter, mode |-> f.current_mode,
     case_sensitive |-> f.case_sensitive, has_error |-> f.last_error # "None",
     error |-> f.last_error, is_active |-> f.current_filter # <<>>]

clear_filter(f) ==
    [f EXCEPT !.current_filter = <<>>, !.compiled_regex = NoRegex, !.last_error = "None"]

-----------------------------------------------------------------------------
(* The file system, as the program sees it.  disk.path_ino is the inode the  *)
(* monitored path names (0: the path does not exist); disk.files[i] is the   *)
(* content of inode i.  An open handle keeps reading the inode it opened.    *)
(* One device: the identity pair (st_dev, st_ino) is the inode number.       *)

path_exists(d) == d.path_ino # 0
\* os.path.getsize(path), os.stat(path).st_size
getsize(d) == Len(d.files[d.path_ino])
\* os.fstat(fh.fileno()).st_size
fstat_size(d, fh) == Len(d.files[fh])

-----------------------------------------------------------------------------
(* FileManager (src/src/managers/file_manager.py).  The object is a record;  *)
(* a method is an operator from the object (and the disk) to the object      *)
(* after the call, with what it returned or raised.  _fh is the inode of the *)
(* open handle, 0 when closed.  opened counts the open() calls that          *)
(* succeeded within the operation under way (history only).                  *)

DEFAULT_ENCODING == "auto"
DEFAULT_REFRESH_MS == 500
\* the shortest interval _poll reschedules itself with, in ms
MIN_REFRESH_MS == 100

FileManager_init(encoding) ==
    [encoding |-> encoding, _fh |-> 0, _inode |-> 0, _pos |-> 0,
     _detected_encoding |-> "None", _last_file_size |-> 0,
     _truncation_callback |-> FALSE, opened |-> 0]

\* head: the first 4 bytes of the file
_encoding_from_bom_short(head) ==
    IF head = <<>> THEN "None"
    ELSE IF StartsWith(head, <<255, 254>>) THEN "utf-16-le"
    ELSE IF StartsWith(head, <<254, 255>>) THEN "utf-16-be"
    ELSE IF StartsWith(head, <<239, 187>>) THEN "utf-8-sig"
    ELSE "None"
_encoding_from_bom(head) ==
    IF head = <<>> THEN "None"
    ELSE IF StartsWith(head, <<255, 254>>) THEN "utf-16-le"
    ELSE IF StartsWith(head, <<254, 255>>) THEN "utf-16-be"
    ELSE IF StartsWith(head, <<239, 187, 191>>) THEN "utf-8-sig"
    ELSE "None"

close(f) == [f EXCEPT !._fh = 0, !._inode = 0, !._pos = 0]

\* open(start_at_end): the argument is not used by the code
open(f, d) ==
    IF ~path_exists(d) THEN [fm |-> close(f), raised |-> TRUE]
    ELSE LET data == d.files[d.path_ino]
             auto == f.encoding = "auto" /\ f._detected_encoding = "None"
             enc == _encoding_from_bom(SubSeq(data, 1, Min2(4, Len(data))))
             det == IF enc # "None" THEN enc ELSE "utf-8"
         IN [fm |-> [f EXCEPT !._fh = d.path_ino, !._inode = d.path_ino,
                              !._detected_encoding = IF auto THEN det ELSE @,
                              !.encoding = IF auto THEN det ELSE @,
                              !._pos = 0,
                              !._last_file_size = Len(data),
                              !.opened = @ + 1],
             raised |-> FALSE]

reset_encoding(f) ==
    [f EXCEPT !._detected_encoding = "None",
              !.encoding = IF @ = "auto" THEN DEFAULT_ENCODING ELSE @]

force_encoding_detection(f) ==
    LET g == [f EXCEPT !._detected_encoding = "None"]
    IN IF g._fh # 0 THEN close(g) ELSE g

\* FileManager.open(start_at_end): [fm, raised]
FileManager_open(f, d, start_at_end) == open(f, d)

set_truncation_callback(f) == [f EXCEPT !._truncation_callback = TRUE]

_analyze_content_encoding(f, data) ==
    IF data = <<>> THEN f.encoding
    ELSE IF StartsWith(data, <<255, 254>>) THEN "utf-16-le"
    ELSE IF StartsWith(data, <<254, 255>>) THEN "utf-16-be"
    ELSE IF StartsWith(data, <<239, 187, 191>>) THEN "utf-8-sig"
    ELSE IF 4 * Count(data, NUL) > Len(data) THEN "utf-16-le"       \* ratio > 0.25
    ELSE IF 20 * Count(data, NUL) < Len(data) THEN "utf-8"          \* ratio < 0.05
    ELSE f.encoding

\* fh.tell() after the read loop of read_entire_file has consumed data
tell_at_start(data) == 0
tell_at_end(data) == Len(data)

\* read_entire_file(): [fm, ret]
read_entire_file(f, d) ==
    LET decoded(g, data) ==
            IF g.encoding \in SupportedCodecs
            THEN [fm |-> [g EXCEPT !._pos = tell_at_end(data)], ret |-> decode(data, g.encoding)]
            ELSE \* LookupError
                 [fm |-> [g EXCEPT !._pos = tell_at_end(data),
                                   !._detected_encoding = IF @ = "None" THEN "utf-8" ELSE @,
                                   !.encoding = IF g._detected_encoding = "None"
                                                THEN "utf-8" ELSE @],
                  ret |-> decode_fallback(data)]
        heuristic(g, data) ==
            IF /\ g.encoding \in {"utf-8", "utf-8-sig"}
               /\ g._detected_encoding = "None"
               /\ data # <<>>
               /\ Count(data, NUL) > Len(data) \div 4
            THEN decoded([g EXCEPT !._detected_encoding = "utf-16-le",
                                   !.encoding = "utf-16-le"], data)
            ELSE decoded(g, data)
        opened(o) == IF o.raised THEN [fm |-> o.fm, ret |-> <<>>]
                     ELSE heuristic(o.fm, d.files[o.fm._fh])
    IN opened(IF f._fh = 0 THEN open(f, d) ELSE [fm |-> f, raised |-> FALSE])

-----------------------------------------------------------------------------
(* LogViewerApp (src/src/ui/main_window.py).  A method is an operator on the *)
(* "world" w = [fm, flt, app, timers, deb]: the three objects, Tk's pending  *)
(* after() jobs, and deb, the history of the debounce kept for the properties. *)
(* app.text is the content of the text widget, app.line_numbers the numbers  *)
(* shown in the gutter, app._filter_job the id of the last scheduled rebuild *)
(* (0: None).                                                                *)

LogViewerApp_init ==
    [path |-> FALSE, file_manager |-> FALSE,
     _line_buffer |-> <<>>, _filtered_lines |-> <<>>, text |-> <<>>,
     line_numbers |-> <<>>, show_line_numbers |-> TRUE,
     filter_text |-> <<>>, case_sensitive |-> FALSE, filter_mode |-> "contains",
     _filter_job |-> 0, paused |-> FALSE,
     refresh_ms |-> <<DEFAULT_REFRESH_MS>>,
     filter_status_label |-> "",
     status |-> [text |-> "Ready", args |-> <<>>, error |-> "None"]]

\* _set_status(msg): the message of the status bar; text is the message's format,
\* args the numbers formatted into it, error the exception text formatted into it
_set_status(w, text, args, error) ==
    [w EXCEPT !.app.status = [text |-> text, args |-> args, error |-> error]]

\* after(ms, _rebuild_view): a job id Tk has not handed out before.  Only
\* _filter_job ever holds an id, so the smallest id that is neither pending nor
\* held stands for the fresh one.
after_rebuild(w) ==
    LET used == w.timers.pending \cup {w.app._filter_job}
        id == CHOOSE i \in 1..(Cardinality(used) + 1) : i \notin used
    IN [w EXCEPT !.timers.pending = @ \cup {id}, !.app._filter_job = id]

\* after_cancel(id): an id that is not pending is ignored
after_cancel_ignored(w, id) == w
after_cancel(w, id) == [w EXCEPT !.timers.pending = @ \ {id}]

\* the number of lines the text widget reports: text.get('1.0', END) ends with
\* the widget's own final newline
TkLineCount(text) == Count(text, LF) + 1

_update_line_numbers(w) ==
    IF ~w.app.show_line_numbers THEN w
    ELSE IF w.app._filtered_lines # <<>> /\ w.flt.current_filter # <<>>
    THEN [w EXCEPT !.app.line_numbers =
             [i \in 1..Len(w.app._filtered_lines) |-> w.app._filtered_lines[i][1]]]
    ELSE [w EXCEPT !.app.line_numbers = [i \in 1..TkLineCount(w.app.text) |-> i]]

_restore_original_view(w) ==
    _update_line_numbers(
        _set_status([w EXCEPT !.app.text = Concat(w.app._line_buffer),
                              !.app._filtered_lines = <<>>],
                    "Showing all {} lines", <<Len(w.app._line_buffer)>>, "None"))

\* the (position, line) pairs of the buffer lines the filter matches
MatchingLines_renumbered(f, buffer) ==
    LET kept == SelectSeq(buffer, LAMBDA line : matches(f, line))
    IN [i \in 1..Len(kept) |-> <<i, kept[i]>>]
MatchingLines(f, buffer) ==
    LET idx == {i \in 1..Len(buffer) : matches(f, buffer[i])}
        pairs == [i \in 1..Len(buffer) |-> <<i, buffer[i]>>]
    IN SelectSeq(pairs, LAMBDA pr : pr[1] \in idx)

_rebuild_view(w) ==
    IF w.flt.current_filter = <<>> THEN _restore_original_view(w)
    ELSE LET total_count == Len(w.app._line_buffer)
             shown(x, matched_count) ==
                 IF x.flt.last_error # "None"
                 THEN _set_status(x, "Filter error: {}", <<>>, x.flt.last_error)
                 ELSE _set_status(x, "Filtered: {}/{} lines",
                                  <<matched_count, total_count>>, "None")
             show(matching_lines) ==
                 _update_line_numbers(shown(
                     [w EXCEPT !.app.text = Concat([i \in 1..Len(matching_lines) |->
                                                       matching_lines[i][2]]),
                               !.app._filtered_lines = matching_lines],
                     Len(matching_lines)))
         IN show(MatchingLines(w.flt, w.app._line_buffer))

\* the debounce: cancel the pending rebuild, schedule a new one
schedule_rebuild(w) ==
    LET c == IF w.app._filter_job # 0 THEN after_cancel(w, w.app._filter_job) ELSE w
        fresh == w.timers.pending = {}
    IN [after_rebuild(c) EXCEPT
           !.deb.burst = IF fresh THEN 1 ELSE Min2(@ + 1, MaxEdits),
           !.deb.fired = IF fresh THEN 0 ELSE @]

\* _update_filter_status(): the label next to the filter entry, "" or "Error"
_update_filter_status(w) ==
    IF get_filter_info(w.flt).is_active
    THEN IF get_filter_info(w.flt).has_error
         THEN [w EXCEPT !.app.filter_status_label = "Error"]
         ELSE w
    ELSE [w EXCEPT !.app.filter_status_label = ""]

_on_filter_change(w) ==
    LET changed(r) == IF r.ret
                      THEN schedule_rebuild(_update_filter_status([w EXCEPT !.flt = r.flt]))
                      ELSE [w EXCEPT !.flt = r.flt]
    IN changed(set_filter(w.flt, w.app.filter_text, w.app.filter_mode,
                          <<w.app.case_sensitive>>))

\* filter_text.set(value): the variable's write trace calls _on_filter_change
filter_text_set(w, value) == _on_filter_change([w EXCEPT !.app.filter_text = value])

\* _clear_filter() leaving the restore to the debounced rebuild
_clear_filter_deferred(w) ==
    LET cleared(w1) == [w1 EXCEPT !.flt = clear_filter(w1.flt),
                                  !.app._filtered_lines = <<>>]
    IN _set_status(cleared(filter_text_set(w, <<>>)), "Filter cleared", <<>>, "None")
_clear_filter(w) ==
    LET cleared(w1) == [w1 EXCEPT !.flt = clear_filter(w1.flt),
                                  !.app._filtered_lines = <<>>]
    IN _set_status(_restore_original_view(cleared(filter_text_set(w, <<>>))),
                   "Filter cleared", <<>>, "None")

_clear_current_view_skipped(w) == w
_clear_current_view(w) ==
    LET cleared(w2) == [w2 EXCEPT !.flt = clear_filter(w2.flt)]
    IN _update_line_numbers(cleared(filter_text_set(
           [w EXCEPT !.app.text = <<>>, !.app._line_buffer = <<>>,
                     !.app._filtered_lines = <<>>], <<>>)))

_load_file_content(w, s) ==
    _update_line_numbers([w EXCEPT !.app.text = s,
                                   !.app._line_buffer = splitlines(s),
                                   !.app._filtered_lines = <<>>])

_append(w, s) ==
    LET added(lines) ==
            IF lines = <<>> THEN w
            ELSE _update_line_numbers(
                     [w EXCEPT !.app._line_buffer = @ \o lines,
                               !.app.text = @ \o Concat(SelectSeq(lines,
                                                LAMBDA line : matches(w.flt, line)))])
    IN added(splitlines(s))

\* the truncation callback the viewer registers on its FileManager
_handle_file_truncation_skipped(w, d) == w
_handle_file_truncation(w, d) ==
    LET loaded(w1, r) ==
            IF r.ret # <<>>
            THEN _set_status(_load_file_content([w1 EXCEPT !.fm = r.fm], r.ret),
                             "File reloaded after truncation ({} lines)",
                             <<Len(splitlines(r.ret))>>, "None")
            ELSE _set_status([w1 EXCEPT !.fm = r.fm],
                             "File reloaded (empty after truncation)", <<>>, "None")
        reload(w1) == loaded(w1, read_entire_file(w1.fm, d))
    IN IF w.app.path /\ w.app.file_manager THEN reload(_clear_current_view(w)) ELSE w

-----------------------------------------------------------------------------
(* FileManager: the tailing call.  These methods reach the viewer through    *)
(* the truncation callback, so they are operators on the world too.          *)

\* the rotation test: an identity is stored and the path's differs from it
rotated_always(f, inode) == f._inode # 0
rotated(f, inode) == f._inode # 0 /\ inode # f._inode

\* the truncation test: the open file is shorter than the offset
truncated_never(f, d) == FALSE
truncated(f, d) == f._fh # 0 /\ fstat_size(d, f._fh) < f._pos

\* the test for telling the viewer: a callback is registered and the size is
\* below half of the last known size
significant(f, current_size) ==
    /\ f._last_file_size > 0
    /\ 2 * current_size < f._last_file_size
    /\ f._truncation_callback

\* the file system when the reopen after a rotation runs: the path as the stat
\* saw it, or gone if it is removed between the two calls (d.race)
at_reopen(d) == IF d.race THEN [d EXCEPT !.path_ino = 0] ELSE d

\* [w, raised]: raised when the reopen after a rotation fails (OSError)
_check_rotation_or_truncate(w, d) ==
    LET current_size == getsize(d)
        reopened(o) ==
            IF o.raised THEN [w |-> [w EXCEPT !.fm = o.fm], raised |-> TRUE]
            ELSE [w |-> [w EXCEPT !.fm = [o.fm EXCEPT !._last_file_size = current_size]],
                  raised |-> FALSE]
        sized(w1) == [w |-> [w1 EXCEPT !.fm._last_file_size = current_size],
                      raised |-> FALSE]
    IN IF ~path_exists(d) THEN [w |-> w, raised |-> FALSE]
       ELSE IF rotated(w.fm, d.path_ino) THEN reopened(open(w.fm, at_reopen(d)))
       ELSE sized(IF truncated(w.fm, d)
                  THEN IF significant(w.fm, current_size)
                       THEN _handle_file_truncation([w EXCEPT !.fm._pos = 0], d)
                       ELSE [w EXCEPT !.fm._pos = 0]
                  ELSE w)

\* fh.seek(_pos); fh.read(): the bytes of the open file from the offset on
read_from_start(d, f) == d.files[f._fh]
read_from_pos(d, f) == SubSeq(d.files[f._fh], f._pos + 1, fstat_size(d, f._fh))

\* fh.tell() after the read: the end of the open file
tell_stale(d, f) == f._pos
tell(d, f) == fstat_size(d, f._fh)

\* read_new_text(): [w, ret, data, raised]; data are the bytes ret was decoded from
read_new_text(w, d) ==
    LET none(x) == [w |-> x, ret |-> <<>>, data |-> <<>>, raised |-> FALSE]
        decoded(x, f1, data) ==
            IF f1.encoding \in SupportedCodecs
            THEN [w |-> [x EXCEPT !.fm = f1], ret |-> decode(data, f1.encoding),
                  data |-> data, raised |-> FALSE]
            ELSE \* LookupError
                 [w |-> [x EXCEPT !.fm = IF f1._detected_encoding # "utf-8"
                                         THEN [f1 EXCEPT !._detected_encoding = "utf-8",
                                                         !.encoding = "utf-8"]
                                         ELSE f1],
                  ret |-> decode_fallback(data), data |-> data, raised |-> FALSE]
        analyzed(x, data, suggested) ==
            decoded(x, [x.fm EXCEPT !._pos = tell(d, x.fm),
                                    !._detected_encoding =
                                        IF suggested # x.fm.encoding THEN suggested ELSE @,
                                    !.encoding = suggested],
                    data)
        got(x, data) == IF data = <<>> THEN none(x)
                        ELSE analyzed(x, data, _analyze_content_encoding(x.fm, data))
        checked(c) == IF c.raised THEN [none(c.w) EXCEPT !.raised = TRUE]
                      ELSE IF ~path_exists(d) THEN none(c.w)
                      ELSE IF getsize(d) <= c.w.fm._pos THEN none(c.w)
                      ELSE got(c.w, read_from_pos(d, c.w.fm))
        opened(o) == IF o.raised THEN none([w EXCEPT !.fm = o.fm])
                     ELSE checked(_check_rotation_or_truncate([w EXCEPT !.fm = o.fm], d))
    IN opened(IF w.fm._fh = 0 THEN open(w.fm, d) ELSE [fm |-> w.fm, raised |-> FALSE])

-----------------------------------------------------------------------------
(* LogViewerApp: the poll and the opening of a file *)

\* the finally clause of _poll: interval = max(100, int(self.refresh_ms.get())),
\* DEFAULT_REFRESH_MS when the get raises (refresh_ms = <<>>: the spinbox holds
\* no number); self.after(interval, self._poll)
reschedule_unclamped(w) ==
    [w EXCEPT !.timers.poll = IF w.app.refresh_ms = <<>> THEN DEFAULT_REFRESH_MS
                              ELSE w.app.refresh_ms[1]]
reschedule(w) ==
    [w EXCEPT !.timers.poll = IF w.app.refresh_ms = <<>> THEN DEFAULT_REFRESH_MS
                              ELSE IF w.app.refresh_ms[1] > MIN_REFRESH_MS
                              THEN w.app.refresh_ms[1] ELSE MIN_REFRESH_MS]

_poll_while_paused(w, d) ==
    LET polled(r) == [w |-> reschedule(
                              IF r.raised
                              THEN _set_status(r.w, "Error: {}", <<>>, "OSError")
                              ELSE IF r.ret # <<>>
                              THEN _set_status(_append(r.w, r.ret), "Updated", <<>>, "None")
                              ELSE r.w),
                      ret |-> r.ret, data |-> r.data, raised |-> r.raised]
    IN IF w.app.file_manager /\ w.app.path
       THEN polled(read_new_text(w, d))
       ELSE [w |-> reschedule(w), ret |-> <<>>, data |-> <<>>, raised |-> FALSE]

\* _poll(): [w, ret, data, raised]; an exception of the read is caught and shown
\* in the status bar; the next poll is scheduled in every case
_poll(w, d) ==
    LET polled(r) == [w |-> reschedule(
                              IF r.raised
                              THEN _set_status(r.w, "Error: {}", <<>>, "OSError")
                              ELSE IF r.ret # <<>>
                              THEN _set_status(_append(r.w, r.ret), "Updated", <<>>, "None")
                              ELSE r.w),
                      ret |-> r.ret, data |-> r.data, raised |-> r.raised]
    IN IF ~w.app.paused /\ w.app.file_manager /\ w.app.path
       THEN polled(read_new_text(w, d))
       ELSE [w |-> reschedule(w), ret |-> <<>>, data |-> <<>>, raised |-> FALSE]

\* _open_path(path, first_open)
_open_path(w, d, first_open) ==
    LET loaded(w3, r) ==
            IF r.ret = <<>>
            THEN _set_status([w3 EXCEPT !.fm = r.fm], "File opened (empty)", <<>>, "None")
            ELSE _set_status(IF ~first_open
                             THEN _load_file_content([w3 EXCEPT !.fm = r.fm], r.ret)
                             ELSE _append([w3 EXCEPT !.fm = r.fm], r.ret),
                             "File loaded ({} lines)", <<Len(splitlines(r.ret))>>, "None")
        read(w3) == loaded(w3, read_entire_file(w3.fm, d))
        cleared(w2) == read(IF ~first_open THEN _clear_current_view(w2) ELSE w2)
    IN cleared([w EXCEPT !.fm = IF ~w.app.file_manager
                                THEN set_truncation_callback(
                                         FileManager_init(DEFAULT_ENCODING))
                                ELSE force_encoding_detection(w.fm),
                         !.app.file_manager = TRUE,
                         !.app.path = TRUE])

\* LogViewerApp(path, encoding): with a path argument the FileManager is made
\* by __init__ (no callback is registered on it); without one the last file of
\* the configuration is opened and _open_path makes the FileManager
\* the last statement of __init__ is self.after(self.refresh_ms.get(), self._poll)
LogViewerApp_new_at(d, path_given, encoding, refresh_ms) ==
    LET scheduled(w) == [w EXCEPT !.timers.poll = w.app.refresh_ms[1]]
    IN scheduled(
         _open_path([fm |-> FileManager_init(encoding), flt |-> FilterManager_init,
                     app |-> [LogViewerApp_init EXCEPT !.path = TRUE,
                                                       !.file_manager = path_given,
                                                       !.refresh_ms = <<refresh_ms>>],
                     timers |-> [pending |-> {}, poll |-> 0],
                     deb |-> [burst |-> 0, fired |-> 0]], d, TRUE))

LogViewerApp_new(d, path_given, encoding) ==
    LogViewerApp_new_at(d, path_given, encoding, DEFAULT_REFRESH_MS)

-----------------------------------------------------------------------------
(* State and steps *)

World == [fm |-> [fm EXCEPT !.opened = 0], flt |-> flt, app |-> app,
          timers |-> timers, deb |-> deb]

SetWorld(w) ==
    /\ fm' = w.fm
    /\ flt' = w.flt
    /\ app' = w.app
    /\ timers' = w.timers
    /\ deb' = w.deb

NoWorld ==
    [fm |-> FileManager_init(DEFAULT_ENCODING), flt |-> FilterManager_init,
     app |-> LogViewerApp_init, timers |-> [pending |-> {}, poll |-> 0],
     deb |-> [burst |-> 0, fired |-> 0]]

\* byte strings of at most n bytes over the bytes in A
RECURSIVE BytesUpTo(_, _)
BytesUpTo(A, n) ==
    IF n = 0 THEN {<<>>}
    ELSE LET shorter == BytesUpTo(A, n - 1)
         IN shorter \cup {Append(x, b) : x \in shorter, b \in A}

\* the disk with the path naming inode 1, of the given content; cap is the
\* longest the writer lets the file grow, max_events the number of truncations,
\* removals and replacements to come
Disk_init(alphabet, content, cap, max_events) ==
    [alphabet |-> alphabet, cap |-> cap, max_events |-> max_events, path_ino |-> 1, used |-> 1, events |-> 0,
     race |-> FALSE,
     files |-> [i \in 1..MaxInode |-> IF i = 1 THEN content ELSE <<>>]]

\* what the properties remember of the last operation: its name, what it
\* returned, the FileManager, the viewer and the FilterManager before it, the
\* arguments of a set_filter call and whether it returned True; polls counts the reads in
\* a row with no file change between them; clean/start/got follow the bytes
\* delivered since the offset was set while the file only grew
Obs_init ==
    [op |-> "init", ret |-> <<>>, data |-> <<>>,
     pre_fm |-> FileManager_init(DEFAULT_ENCODING), pre_app |-> LogViewerApp_init,
     pre_flt |-> FilterManager_init,
     arg |-> [text |-> <<>>, mode |-> "None", case_sensitive |-> <<>>],
     changed |-> FALSE, start_at_end |-> FALSE, raised |-> FALSE,
     polls |-> 0, clean |-> FALSE, start |-> 0, got |-> <<>>,
     calls |-> 0, fresh |-> 0, tick |-> FALSE, missed |-> 0]

\* a file that no path names and no handle holds open is gone
Reclaim(d, f) ==
    [d EXCEPT !.files = [i \in 1..MaxInode |->
                            IF i = d.path_ino \/ i = f._fh THEN d.files[i] ELSE <<>>]]

\* a step of the writer or of the system outside: the program is not running
FsStep(name) ==
    /\ UNCHANGED <<fm, flt, app, timers, deb, old, cfg>>
    /\ obs' = [obs EXCEPT !.op = name, !.ret = <<>>, !.data = <<>>,
                          !.pre_fm = FileManager_init(DEFAULT_ENCODING),
                          !.pre_app = LogViewerApp_init, !.polls = 0,
                          !.clean = IF name = "append" THEN @ ELSE FALSE]

\* the writer appends one byte to the file the path names
FsAppend ==
    /\ path_exists(disk)
    /\ getsize(disk) < disk.cap
    /\ \E b \in disk.alphabet :
          disk' = [disk EXCEPT !.files[disk.path_ino] = Append(@, b)]
    /\ FsStep("append")

\* the file is truncated in place to n bytes (n = 0: reopened for writing)
FsTruncate ==
    /\ path_exists(disk)
    /\ disk.events < disk.max_events
    /\ \E n \in 0..(getsize(disk) - 1) :
          disk' = [disk EXCEPT !.files[disk.path_ino] = SubSeq(@, 1, n),
                               !.events = @ + 1]
    /\ FsStep("truncate")

\* the path is removed (the first half of a rotation); an open handle keeps
\* its file
FsRemove ==
    /\ path_exists(disk)
    /\ disk.events < disk.max_events
    /\ disk' = Reclaim([disk EXCEPT !.path_ino = 0, !.events = @ + 1], fm)
    /\ FsStep("remove")

\* a new, empty file appears at the path: after a removal, or replacing the
\* old file in one step (rename)
FsCreate ==
    /\ disk.used < MaxInode
    /\ (path_exists(disk) => disk.events < disk.max_events)
    /\ disk' = Reclaim([disk EXCEPT !.path_ino = disk.used + 1, !.used = @ + 1,
                                    !.events = IF path_exists(disk) THEN @ + 1 ELSE @],
                       fm)
    /\ FsStep("create")

\* the bookkeeping of the bytes delivered, after a read returned data
Delivered(o, f, data) ==
    IF f.opened > 0 THEN [o EXCEPT !.clean = TRUE, !.start = 0, !.got = data]
    ELSE IF o.clean THEN [o EXCEPT !.got = @ \o data]
    ELSE o

\* FileManager.read_new_text() called on the bare tailer
ReadNewText ==
    \E r \in {read_new_text(World, disk)} :
        /\ SetWorld(r.w)
        /\ obs' = [Delivered(obs, r.w.fm, r.data) EXCEPT
                      !.op = "read_new_text", !.ret = r.ret, !.data = r.data,
                      !.pre_fm = fm, !.polls = Min2(@ + 1, 2), !.raised = r.raised]
        /\ disk' = Reclaim(disk, r.w.fm)
        /\ UNCHANGED <<old, cfg>>

\* FileManager.read_entire_file() called on the bare tailer
ReadEntireFile ==
    \E r \in {read_entire_file(World.fm, disk)} :
        /\ fm' = r.fm
        /\ obs' = [obs EXCEPT !.op = "read_entire_file", !.ret = r.ret,
                              !.data = <<>>, !.pre_fm = fm, !.polls = 0,
                              !.clean = r.fm._fh # 0, !.start = r.fm._pos,
                              !.got = <<>>]
        /\ disk' = Reclaim(disk, r.fm)
        /\ UNCHANGED <<flt, app, timers, deb, old, cfg>>

TailBytes == {NUL, 97}

\* the tailer alone: a FileManager on an existing file, not yet opened
InitTail ==
    /\ \E content \in BytesUpTo(TailBytes, 1) : disk = Disk_init(TailBytes, content, MaxFile, MaxFsEvents)
    /\ fm = FileManager_init(DEFAULT_ENCODING)
    /\ flt = NoWorld.flt
    /\ app = NoWorld.app
    /\ timers = NoWorld.timers
    /\ deb = NoWorld.deb
    /\ old = 0
    /\ cfg = 0
    /\ obs = Obs_init

NextTail ==
    \/ FsAppend
    \/ FsTruncate
    \/ FsRemove
    \/ FsCreate
    \/ ReadNewText
    \/ ReadEntireFile

SpecTail == InitTail /\ [][NextTail]_vars

-----------------------------------------------------------------------------
(* The viewer on a file: construction, polls, and the file changing under it *)

\* one tick of the poll timer: _poll() runs and reschedules itself
Poll ==
    /\ timers.poll # 0
    /\ \E r \in {_poll(World, disk)} :
        /\ SetWorld(r.w)
        /\ obs' = [obs EXCEPT !.op = "poll", !.ret = r.ret, !.data = r.data,
                              !.pre_fm = fm, !.pre_app = app,
                              !.polls = Min2(@ + 1, 2)]
        /\ disk' = Reclaim(disk, r.w.fm)
        /\ UNCHANGED <<old, cfg>>

ViewBytes == {97, LF}

\* LogViewerApp(path) (the file named on the command line) or LogViewerApp()
\* (the last file of the configuration), on a file of any content
InitView ==
    /\ \E content \in BytesUpTo(ViewBytes, MaxViewFile) :
          disk = Disk_init(ViewBytes, content, MaxViewFile, MaxViewEvents)
    /\ \E path_given \in BOOLEAN :
          \E w \in {LogViewerApp_new(disk, path_given, DEFAULT_ENCODING)} :
              /\ fm = w.fm
              /\ flt = w.flt
              /\ app = w.app
              /\ timers = w.timers
              /\ deb = w.deb
    /\ old = 0
    /\ cfg = 0
    /\ obs = Obs_init

NextView ==
    \/ FsAppend
    \/ FsTruncate
    \/ Poll

SpecView == InitView /\ [][NextView]_vars

-----------------------------------------------------------------------------
(* The viewer and its filter controls *)

\* the user types in the filter box: filter_text is written
FilterEdit ==
    /\ \E value \in {<<>>, <<97>>, <<98>>} : SetWorld(filter_text_set(World, value))
    /\ obs' = [obs EXCEPT !.op = "edit", !.ret = <<>>, !.data = <<>>,
                          !.pre_fm = fm, !.pre_app = LogViewerApp_init, !.polls = 0,
                          !.changed = FALSE]
    /\ UNCHANGED <<disk, old, cfg>>

\* the Clear button
ClearFilter ==
    /\ SetWorld(_clear_filter(World))
    /\ obs' = [obs EXCEPT !.op = "clear_filter", !.ret = <<>>, !.data = <<>>,
                          !.pre_fm = fm, !.pre_app = app, !.polls = 0,
                          !.changed = FALSE]
    /\ UNCHANGED <<disk, old, cfg>>

\* the quiet interval of a pending job has elapsed: Tk runs _rebuild_view
TimerFire ==
    /\ \E id \in timers.pending :
          SetWorld(_rebuild_view([World EXCEPT !.timers.pending = @ \ {id},
                                               !.deb.fired = Min2(@ + 1, 2)]))
    /\ obs' = [obs EXCEPT !.op = "rebuild", !.ret = <<>>, !.data = <<>>,
                          !.pre_fm = fm, !.pre_app = LogViewerApp_init, !.polls = 0,
                          !.changed = FALSE]
    /\ UNCHANGED <<disk, old, cfg>>

FilterBytes == {97, 98, LF}

InitFilterView ==
    /\ \E content \in BytesUpTo(FilterBytes, 1) :
          disk = Disk_init(FilterBytes, content, MaxFilterFile, 0)
    /\ \E w \in {LogViewerApp_new(disk, FALSE, DEFAULT_ENCODING)} :
          /\ fm = w.fm
          /\ flt = w.flt
          /\ app = w.app
          /\ timers = w.timers
          /\ deb = w.deb
    /\ old = 0
    /\ cfg = 0
    /\ obs = Obs_init

NextFilterView ==
    \/ FsAppend
    \/ Poll
    \/ FilterEdit
    \/ ClearFilter
    \/ TimerFire

SpecFilterView == InitFilterView /\ [][NextFilterView]_vars

-----------------------------------------------------------------------------
(* The FilterManager alone *)

\* the filter texts a caller passes: none, "a", and "(", which is not a
\* regular expression
Patterns == {<<>>, <<97>>, <<LPAREN>>}

\* the lines a filter is asked about
Lines == BytesUpTo({97, 65, LPAREN}, 2)

\* set_filter(text, mode, case_sensitive) with any arguments: mode and
\* case_sensitive given or left out, the mode one of MODES or an unknown name
SetFilter ==
    /\ \E text \in Patterns, cs \in {<<>>, <<TRUE>>, <<FALSE>>},
          mode \in {"None", "fuzzy"} \cup {MODES[i] : i \in 1..Len(MODES)} :
          \E r \in {set_filter(flt, text, mode, cs)} :
              /\ flt' = r.flt
              /\ obs' = [obs EXCEPT !.op = "set_filter", !.pre_flt = flt,
                                    !.arg = [text |-> text, mode |-> mode,
                                             case_sensitive |-> cs],
                                    !.changed = r.ret]
    /\ UNCHANGED <<disk, fm, app, timers, deb, old, cfg>>

\* clear_filter()
ManagerClearFilter ==
    /\ flt' = clear_filter(flt)
    /\ obs' = [obs EXCEPT !.op = "clear_filter", !.pre_flt = flt, !.changed = FALSE]
    /\ UNCHANGED <<disk, fm, app, timers, deb, old, cfg>>

InitFilter ==
    /\ disk = Disk_init({}, <<>>, 0, 0)
    /\ fm = NoWorld.fm
    /\ flt = FilterManager_init
    /\ app = NoWorld.app
    /\ timers = NoWorld.timers
    /\ deb = NoWorld.deb
    /\ old = 0
    /\ cfg = 0
    /\ obs = Obs_init

NextFilter ==
    \/ SetFilter
    \/ ManagerClearFilter

SpecFilter == InitFilter /\ [][NextFilter]_vars

-----------------------------------------------------------------------------
(* The line buffer of the single-file revision (src/FileUpdater.py): a       *)
(* collections.deque with a maxlen, and the "Max lines" control.  A line is  *)
(* its sequence number: the k-th line appended is k.  appended, appends,     *)
(* fixed and op are history: the lines and chunks appended so far, whether   *)
(* max_lines still has its first value, and the last operation.              *)

MAX_LINES_DEFAULT == 10000
TRIM_FLOOR == 1000

\* collections.deque(items, maxlen=maxlen): the last maxlen of the items
deque(items, maxlen) ==
    IF Len(items) > maxlen THEN SubSeq(items, Len(items) - maxlen + 1, Len(items))
    ELSE items

\* the viewer with display.max_lines of the configuration in its IntVar
FileUpdater_init(max_lines) ==
    [max_lines |-> max_lines, _line_buffer |-> <<>>, maxlen |-> MAX_LINES_DEFAULT,
     _filtered_lines |-> <<>>,
     appended |-> 0, appends |-> 0, fixed |-> TRUE, op |-> "init"]

_buffer_trim(o) ==
    LET n == IF o.max_lines # 0 THEN o.max_lines ELSE MAX_LINES_DEFAULT
        target == IF n > TRIM_FLOOR THEN n ELSE TRIM_FLOOR
    IN IF o.maxlen # target
       THEN [o EXCEPT !._line_buffer = deque(@, target), !.maxlen = target]
       ELSE o

\* _append(s) of FileUpdater.py, on the lines of s: extend the deque, then trim
FileUpdater_append(o, lines) ==
    IF lines = <<>> THEN o
    ELSE _buffer_trim([o EXCEPT !._line_buffer = deque(@ \o lines, o.maxlen)])

\* the values of the "Max lines" spinbox used, and the lines one chunk brings
Capacities == {1000, 2000, 20000}
ChunkLines == {1, 1000, 11000}

\* a chunk of new text arrives (the file opened, or a poll)
OldAppend ==
    /\ old.appends < MaxAppends
    /\ \E k \in ChunkLines :
          old' = [FileUpdater_append(old, [i \in 1..k |-> old.appended + i]) EXCEPT
                     !.appended = @ + k, !.appends = @ + 1, !.op = "append"]
    /\ UNCHANGED <<disk, fm, flt, app, timers, deb, cfg, obs>>

\* the user sets the "Max lines" spinbox
OldSetMaxLines ==
    /\ \E c \in Capacities \ {old.max_lines} :
          old' = [old EXCEPT !.max_lines = c, !.fixed = FALSE, !.op = "set_max_lines"]
    /\ UNCHANGED <<disk, fm, flt, app, timers, deb, cfg, obs>>

InitBuffer ==
    /\ disk = Disk_init({}, <<>>, 0, 0)
    /\ fm = NoWorld.fm
    /\ flt = NoWorld.flt
    /\ app = NoWorld.app
    /\ timers = NoWorld.timers
    /\ deb = NoWorld.deb
    /\ \E c \in Capacities : old = FileUpdater_init(c)
    /\ cfg = 0
    /\ obs = Obs_init

NextBuffer ==
    \/ OldAppend
    \/ OldSetMaxLines

SpecBuffer == InitBuffer /\ [][NextBuffer]_vars

-----------------------------------------------------------------------------
(* Properties of the tailer *)

\* C1: while the file only grows, the bytes read_new_text has returned since the
\* offset was set are, joined in order, the file's bytes from that offset to
\* the offset now, and a call leaves the offset at the end of the file it saw:
\* no byte is skipped, none is delivered twice.
C1_NoByteSkippedOrRepeated ==
    (obs.clean /\ fm._fh # 0) =>
        /\ obs.got = SubSeq(disk.files[fm._fh], obs.start + 1, fm._pos)
        /\ obs.op = "read_new_text" => fm._pos = fstat_size(disk, fm._fh)

\* two or more reads, interleaved with appends, have delivered data
C1_Witness ==
    /\ obs.clean
    /\ obs.op = "read_new_text"
    /\ obs.data # <<>>
    /\ Len(obs.got) > Len(obs.data)

\* C4: a read that finds the path naming another file than the stored identity
\* reopens exactly once, stores the new identity and returns the new file from
\* byte 0; a read that finds the stored identity does not reopen.
C4_RotationReopensOnce ==
    (obs.op = "read_new_text" /\ obs.pre_fm._inode # 0 /\ path_exists(disk)) =>
        IF disk.path_ino # obs.pre_fm._inode
        THEN /\ fm.opened = 1
             /\ fm._inode = disk.path_ino
             /\ fm._fh = disk.path_ino
             /\ obs.data = disk.files[disk.path_ino]
             /\ fm._pos = getsize(disk)
        ELSE /\ fm.opened = 0
             /\ fm._inode = obs.pre_fm._inode

\* a read has followed a rotation and returned the new file's bytes
C4_Witness ==
    /\ obs.op = "read_new_text"
    /\ obs.pre_fm._inode # 0
    /\ path_exists(disk)
    /\ disk.path_ino # obs.pre_fm._inode
    /\ obs.data # <<>>

\* C5: the second of two reads with no file change between them returns the
\* empty string and leaves offset, identity and encoding as they were.
C5_SecondReadEmpty ==
    (obs.op = "read_new_text" /\ obs.polls = 2) =>
        /\ obs.ret = <<>>
        /\ fm._pos = obs.pre_fm._pos
        /\ fm._inode = obs.pre_fm._inode
        /\ fm.encoding = obs.pre_fm.encoding

\* the second read of a file that has content and was read by the first
C5_Witness ==
    /\ obs.op = "read_new_text"
    /\ obs.polls = 2
    /\ fm._fh # 0
    /\ fm._pos > 0
    /\ fm.encoding = "utf-16-le"

-----------------------------------------------------------------------------
(* Properties of the viewer on a file that is truncated *)

\* C2 (as stated): a read that finds the file shorter than the offset returns
\* the whole of the new content and leaves the offset at its end.
C2_TruncationReturnsAll ==
    (obs.op = "poll" /\ truncated(obs.pre_fm, disk)) =>
        /\ obs.data = disk.files[fm._fh]
        /\ fm._pos = getsize(disk)

\* C2: a read that finds the file shorter than the offset leaves the offset at
\* the end of the new content; it returns the whole of the new content unless
\* the truncation callback ran (one is registered and the size is below half of
\* the last known size): then the callback's reload has put the content in the
\* view and the read returns nothing.
C2_TruncationReturnsAllUnlessReloaded ==
    (obs.op = "poll" /\ truncated(obs.pre_fm, disk)) =>
        /\ fm._pos = getsize(disk)
        /\ IF significant(obs.pre_fm, getsize(disk))
           THEN /\ obs.data = <<>>
                /\ app.text = decode(disk.files[fm._fh], fm.encoding)
           ELSE obs.data = disk.files[fm._fh]

\* a poll after a truncation to a non-empty file, with the callback run
C2_Witness ==
    /\ obs.op = "poll"
    /\ truncated(obs.pre_fm, disk)
    /\ significant(obs.pre_fm, getsize(disk))
    /\ getsize(disk) > 0

\* C3 (as stated): after the poll that follows a truncation below the offset,
\* the view and the line buffer hold the file's current content and nothing
\* else.
C3_ViewReloadedAfterTruncation ==
    (obs.op = "poll" /\ truncated(obs.pre_fm, disk)) =>
        /\ app.text = decode(disk.files[fm._fh], fm.encoding)
        /\ app._line_buffer = splitlines(decode(disk.files[fm._fh], fm.encoding))

-----------------------------------------------------------------------------
(* Properties of the filter controls *)

\* C7: the edits of a burst (each made while the rebuild scheduled by the one
\* before is still pending) leave one rebuild pending; none runs before the
\* last edit, exactly one has run once nothing is pending, and it shows the
\* buffer under the filter text present after the last edit.
C7_OneRebuildPerBurst ==
    /\ Cardinality(timers.pending) <= 1
    /\ timers.pending # {} => deb.fired = 0
    /\ (timers.pending = {} /\ deb.burst > 0) => deb.fired = 1
    /\ obs.op = "rebuild" =>
          /\ flt.current_filter = app.filter_text
          /\ app.text = Concat(SelectSeq(app._line_buffer,
                                         LAMBDA line : matches(flt, line)))

\* the rebuild after a burst of MaxEdits edits, with a filter in force
C7_Witness ==
    /\ obs.op = "rebuild"
    /\ deb.burst = MaxEdits
    /\ deb.fired = 1
    /\ timers.pending = {}
    /\ flt.current_filter # <<>>
    /\ app.text # Concat(app._line_buffer)

\* C10 (as stated): with the filter on and the projection up to date, a poll
\* that appends lines extends the projection by the new lines that match,
\* numbered by their place in the buffer, and leaves the entries it held alone.
C10_AppendExtendsProjection ==
    (/\ obs.op = "poll"
     /\ obs.ret # <<>>
     /\ flt.current_filter # <<>>
     /\ timers.pending = {}
     /\ obs.pre_app._filtered_lines = MatchingLines(flt, obs.pre_app._line_buffer)) =>
        app._filtered_lines = MatchingLines(flt, app._line_buffer)

-----------------------------------------------------------------------------
(* Properties of the FilterManager *)

\* C6 (as stated): while last_error is set no line matches, whatever the mode
\* and the case sensitivity; and after a set_filter call that leaves the mode
\* Regex and passes a text that does not compile, has_error is true and no
\* line matches.
C6_ErrorFailsClosed ==
    /\ flt.last_error # "None" => \A line \in Lines : ~matches(flt, line)
    /\ (/\ obs.op = "set_filter"
        /\ flt.current_mode = "regex"
        /\ obs.arg.text # <<>>
        /\ re_error(obs.arg.text) # "None") =>
          /\ get_filter_info(flt).has_error
          /\ \A line \in Lines : ~matches(flt, line)

-----------------------------------------------------------------------------
(* Properties of the line buffer *)

\* C8 (as stated): with the capacity left as it was set, after any appends the
\* buffer holds at most capacity lines and is the last min(capacity, n) of the
\* n lines appended, in order.
C8_BufferHoldsLastLines ==
    (old.fixed /\ old.op = "append") =>
        /\ Len(old._line_buffer) <= old.max_lines
        /\ old._line_buffer =
              [i \in 1..Min2(old.max_lines, old.appended) |->
                  old.appended - Min2(old.max_lines, old.appended) + i]

\* C9 (as stated): once the capacity has been set, before any further append,
\* the buffer holds no more lines than the new capacity.
C9_LoweringEvictsAtOnce ==
    old.op = "set_max_lines" => Len(old._line_buffer) <= old.max_lines

-----------------------------------------------------------------------------
(* The filter controls of the viewer on a loaded file: the text entry, the   *)
(* mode combobox, the case checkbox, the Clear button and the debounce timer *)

\* _on_filter_mode_change(event): the combobox's selection handler
_on_filter_mode_change(w) == _on_filter_change(w)

\* case_sensitive.set(value): the variable's write trace calls _on_filter_change
case_sensitive_set(w, value) == _on_filter_change([w EXCEPT !.app.case_sensitive = value])

\* typing in the filter entry
PatternEdit ==
    /\ \E value \in {<<>>, <<97>>, <<LPAREN>>} : SetWorld(filter_text_set(World, value))
    /\ obs' = [obs EXCEPT !.op = "edit", !.ret = <<>>, !.data = <<>>,
                          !.pre_fm = fm, !.pre_app = LogViewerApp_init, !.polls = 0,
                          !.changed = FALSE]
    /\ UNCHANGED <<disk, old, cfg>>

\* selecting a mode in the combobox
ModeSelect ==
    /\ \E i \in 1..Len(MODES) :
          SetWorld(_on_filter_mode_change([World EXCEPT !.app.filter_mode = MODES[i]]))
    /\ obs' = [obs EXCEPT !.op = "mode", !.ret = <<>>, !.data = <<>>,
                          !.pre_fm = fm, !.pre_app = LogViewerApp_init, !.polls = 0,
                          !.changed = app'.filter_mode # app.filter_mode]
    /\ UNCHANGED <<disk, old, cfg>>

\* clicking the case checkbox
CaseToggle ==
    /\ SetWorld(case_sensitive_set(World, ~app.case_sensitive))
    /\ obs' = [obs EXCEPT !.op = "case", !.ret = <<>>, !.data = <<>>,
                          !.pre_fm = fm, !.pre_app = LogViewerApp_init, !.polls = 0,
                          !.changed = app'.case_sensitive # app.case_sensitive]
    /\ UNCHANGED <<disk, old, cfg>>

ModeBytes == {65, LF}

InitModeView ==
    /\ \E content \in BytesUpTo(ModeBytes, MaxModeFile) :
          disk = Disk_init(ModeBytes, content, MaxModeFile, 0)
    /\ \E w \in {LogViewerApp_new(disk, FALSE, DEFAULT_ENCODING)} :
          /\ fm = w.fm
          /\ flt = w.flt
          /\ app = w.app
          /\ timers = w.timers
          /\ deb = w.deb
    /\ old = 0
    /\ cfg = 0
    /\ obs = Obs_init

NextModeView ==
    \/ PatternEdit
    \/ ModeSelect
    \/ CaseToggle
    \/ ClearFilter
    \/ TimerFire

SpecModeView == InitModeView /\ [][NextModeView]_vars

-----------------------------------------------------------------------------
(* Properties of the rebuild *)

\* C11: after a full rebuild with a non-empty filter the projection holds
\* exactly the buffer lines the current filter matches, in buffer order, each
\* paired with its position in the buffer; the status bar reports the pair
\* (projection length, buffer size), or the filter's error when the filter has
\* one (and then the projection is empty).
C11_RebuildProjection ==
    (obs.op = "rebuild" /\ flt.current_filter # <<>>) =>
        /\ \A i \in 1..Len(app._filtered_lines) :
              /\ app._filtered_lines[i][1] \in 1..Len(app._line_buffer)
              /\ app._filtered_lines[i][2] = app._line_buffer[app._filtered_lines[i][1]]
              /\ matches(flt, app._filtered_lines[i][2])
        /\ \A i \in 1..(Len(app._filtered_lines) - 1) :
              app._filtered_lines[i][1] < app._filtered_lines[i + 1][1]
        /\ \A k \in 1..Len(app._line_buffer) :
              matches(flt, app._line_buffer[k]) =>
                  \E i \in 1..Len(app._filtered_lines) : app._filtered_lines[i][1] = k
        /\ IF flt.last_error = "None"
           THEN app.status = [text |-> "Filtered: {}/{} lines",
                              args |-> <<Len(app._filtered_lines), Len(app._line_buffer)>>,
                              error |-> "None"]
           ELSE /\ app.status.text = "Filter error: {}"
                /\ app._filtered_lines = <<>>

\* a rebuild that left a projection shorter than the buffer, whose first entry
\* is not the first line of the buffer
C11_Witness ==
    /\ obs.op = "rebuild"
    /\ flt.current_filter # <<>>
    /\ Len(app._filtered_lines) < Len(app._line_buffer)
    /\ app._filtered_lines # <<>>
    /\ app._filtered_lines[1][1] > 1
    /\ app.status.args = <<Len(app._filtered_lines), Len(app._line_buffer)>>


\* C12 (as stated): a change of the mode or of the case sensitivity made while
\* the filter text is non-empty leaves a rebuild pending; and whenever a
\* filter is in force and no rebuild is pending, the view shows exactly the
\* buffer lines that match under the filter's mode and case sensitivity.
C12_ModeChangeRebuilds ==
    /\ (obs.op \in {"mode", "case"} /\ obs.changed /\ app.filter_text # <<>>) =>
          timers.pending # {}
    /\ (timers.pending = {} /\ flt.current_filter # <<>>) =>
          app.text = Concat(SelectSeq(app._line_buffer, LAMBDA line : matches(flt, line)))


-----------------------------------------------------------------------------
(* Properties of set_filter *)

\* C13 (as stated): set_filter returns True exactly when the call changed the
\* filter's text or, the text being non-empty, its mode or its case
\* sensitivity (with an empty text no filter is in force, whatever the mode).
C13_ReturnsWhetherChanged ==
    obs.op = "set_filter" =>
        (obs.changed <=> \/ flt.current_filter # obs.pre_flt.current_filter
                         \/ /\ flt.current_filter # <<>>
                            /\ \/ flt.current_mode # obs.pre_flt.current_mode
                               \/ flt.case_sensitive # obs.pre_flt.case_sensitive)


-----------------------------------------------------------------------------
(* Properties of the Clear button *)

\* C14: when _clear_filter returns, no filter is in force, the view shows the
\* whole buffer line for line and the projection is empty, whether or not a
\* rebuild is pending; and a rebuild that fires next leaves the view, the
\* projection and the gutter as they are.
C14_ClearIsSynchronous ==
    /\ [](obs.op = "clear_filter" =>
             /\ flt.current_filter = <<>>
             /\ app.filter_text = <<>>
             /\ app.text = Concat(app._line_buffer)
             /\ app._filtered_lines = <<>>
             /\ app.line_numbers = [i \in 1..TkLineCount(app.text) |-> i])
    /\ [][(obs.op = "clear_filter" /\ obs'.op = "rebuild") =>
             /\ app'.text = app.text
             /\ app'._filtered_lines = app._filtered_lines
             /\ app'.line_numbers = app.line_numbers
             /\ flt' = flt]_vars

\* the Clear button pressed on a filtered view that hides lines, leaving the
\* rebuild it superseded pending
C14_Witness ==
    /\ obs.op = "clear_filter"
    /\ obs.pre_app.filter_text # <<>>
    /\ obs.pre_app._filtered_lines # <<>>
    /\ obs.pre_app.text # Concat(obs.pre_app._line_buffer)
    /\ timers.pending # {}


-----------------------------------------------------------------------------
(* The FileManager opening a file: the bytes of the byte order marks, a NUL  *)
(* and a letter, in files of up to MaxHead bytes                             *)

BomBytes == {255, 254, 239, 187, 191, NUL, 97}

\* FileManager.open(start_at_end) on a handle that is closed or open
CallOpen ==
    /\ \E start_at_end \in BOOLEAN :
          \E r \in {FileManager_open([fm EXCEPT !.opened = 0], disk, start_at_end)} :
              /\ fm' = r.fm
              /\ obs' = [obs EXCEPT !.op = "open", !.pre_fm = fm,
                                    !.start_at_end = start_at_end]
    /\ UNCHANGED <<disk, flt, app, timers, deb, old, cfg>>

\* FileManager.reset_encoding()
CallResetEncoding ==
    /\ fm' = reset_encoding(fm)
    /\ obs' = [obs EXCEPT !.op = "reset_encoding", !.pre_fm = fm]
    /\ UNCHANGED <<disk, flt, app, timers, deb, old, cfg>>

\* FileManager.force_encoding_detection()
CallForceDetection ==
    /\ fm' = force_encoding_detection(fm)
    /\ obs' = [obs EXCEPT !.op = "force_encoding_detection", !.pre_fm = fm]
    /\ UNCHANGED <<disk, flt, app, timers, deb, old, cfg>>

InitBom ==
    /\ \E content \in BytesUpTo(BomBytes, MaxHead) :
          disk = Disk_init(BomBytes, content, MaxHead, 0)
    /\ \E encoding \in {"auto", "utf-8"} : fm = FileManager_init(encoding)
    /\ flt = NoWorld.flt
    /\ app = NoWorld.app
    /\ timers = NoWorld.timers
    /\ deb = NoWorld.deb
    /\ old = 0
    /\ cfg = 0
    /\ obs = Obs_init

NextBom ==
    \/ CallOpen
    \/ CallResetEncoding
    \/ CallForceDetection

SpecBom == InitBom /\ [][NextBom]_vars

\* C15: open() on a FileManager whose encoding is "auto" sets the encoding
\* from the first bytes of the file alone: FF FE gives utf-16-le, FE FF
\* utf-16-be, EF BB BF utf-8-sig, and any other file (the empty one too) utf-8.
C15_BomClassification ==
    (obs.op = "open" /\ obs.pre_fm.encoding = "auto") =>
        LET content == disk.files[disk.path_ino]
            starts(a, b) == Len(content) >= 2 /\ content[1] = a /\ content[2] = b
        IN /\ fm._fh # 0
           /\ fm.encoding = IF starts(255, 254) THEN "utf-16-le"
                            ELSE IF starts(254, 255) THEN "utf-16-be"
                            ELSE IF starts(239, 187) /\ Len(content) >= 3 /\ content[3] = 191
                            THEN "utf-8-sig"
                            ELSE "utf-8"
           /\ fm._detected_encoding = fm.encoding

\* a file opened with "auto" that begins with two of the three bytes of the
\* UTF-8 mark and is classified as utf-8
C15_Witness ==
    /\ obs.op = "open"
    /\ obs.pre_fm.encoding = "auto"
    /\ Len(disk.files[disk.path_ino]) = MaxHead
    /\ StartsWith(disk.files[disk.path_ino], <<239, 187>>)
    /\ fm.encoding = "utf-8"

\* C16 (as stated): open(start_at_end) leaves the offset at the end of the
\* file when start_at_end is true and at 0 otherwise.
C16_OpenSetsOffset ==
    obs.op = "open" =>
        fm._pos = IF obs.start_at_end THEN getsize(disk) ELSE 0


-----------------------------------------------------------------------------
(* Properties of the initial load *)

\* C17: the load of the file leaves the offset at the end of the file; while
\* the file only grows, a poll that finds the offset at the end of the file
\* returns nothing, every poll returns the bytes between the offset and the end
\* of the file and appends their text to the view, so that the view holds the
\* file's content once, and leaves the offset at the end of the file.
C17_LoadLeavesOffsetAtEnd ==
    /\ obs.op = "init" =>
          /\ fm._pos = getsize(disk)
          /\ app.text = disk.files[disk.path_ino]
    /\ (obs.op = "poll" /\ disk.events = 0) =>
          /\ obs.pre_fm._pos = getsize(disk) => obs.ret = <<>>
          /\ obs.data = SubSeq(disk.files[disk.path_ino], obs.pre_fm._pos + 1, getsize(disk))
          /\ obs.ret = obs.data
          /\ app.text = obs.pre_app.text \o obs.ret
          /\ app.text = disk.files[disk.path_ino]
          /\ fm._pos = getsize(disk)

\* a byte appended after the load of a file of several lines, and the poll
\* that returned it
C17_Witness ==
    /\ obs.op = "poll"
    /\ disk.events = 0
    /\ obs.pre_fm._pos = MaxViewFile - 1
    /\ Len(obs.data) = 1
    /\ Len(app._line_buffer) > 1


-----------------------------------------------------------------------------
(* Properties of the encoding heuristics *)

\* C18 (as stated): read_entire_file on a FileManager made with "auto", on a
\* file without byte order mark of whose bytes more than a quarter are NUL,
\* switches the encoding to utf-16-le and returns the bytes decoded as
\* UTF-16-LE.
C18_LoadDetectsUtf16 ==
    (/\ obs.op = "read_entire_file"
     /\ obs.pre_fm.encoding = "auto"
     /\ fm._fh # 0
     /\ _encoding_from_bom(disk.files[fm._fh]) = "None"
     /\ 4 * Count(disk.files[fm._fh], NUL) > Len(disk.files[fm._fh])) =>
        /\ fm.encoding = "utf-16-le"
        /\ obs.ret = decode(disk.files[fm._fh], "utf-16-le")

\* C19 (as stated): a read_new_text on an open file that does not reopen it
\* changes the encoding only if the encoding was utf-8 or utf-8-sig and more
\* than a quarter of the bytes it read are NUL, and then to utf-16-le.
C19_EncodingChangesOnlyOnNuls ==
    (/\ obs.op = "read_new_text"
     /\ obs.pre_fm._fh # 0
     /\ fm.opened = 0
     /\ fm.encoding # obs.pre_fm.encoding) =>
        /\ obs.pre_fm.encoding \in {"utf-8", "utf-8-sig"}
        /\ 4 * Count(obs.data, NUL) > Len(obs.data)
        /\ fm.encoding = "utf-16-le"


-----------------------------------------------------------------------------
(* The tailer while the file is rotated under it, the path being removed     *)
(* also in the middle of a read                                              *)

\* read_new_text() on a rotated file, the path being removed after the stat
\* of the rotation check and before its reopen
ReadNewTextDuringRemoval ==
    /\ fm._fh # 0
    /\ path_exists(disk)
    /\ rotated(fm, disk.path_ino)
    /\ disk.events < disk.max_events
    /\ \E r \in {read_new_text(World, [disk EXCEPT !.race = TRUE])} :
          /\ SetWorld(r.w)
          /\ obs' = [obs EXCEPT !.op = "read_new_text", !.ret = r.ret, !.data = r.data,
                                !.pre_fm = fm, !.polls = 0, !.raised = r.raised,
                                !.clean = FALSE]
          /\ disk' = Reclaim([disk EXCEPT !.path_ino = 0, !.events = @ + 1], r.w.fm)
    /\ UNCHANGED <<old, cfg>>

NextRace ==
    \/ FsAppend
    \/ FsTruncate
    \/ FsRemove
    \/ FsCreate
    \/ ReadNewText
    \/ ReadNewTextDuringRemoval

SpecRace == InitTail /\ [][NextRace]_vars

\* C20 (as stated): read_new_text never raises, and returns the empty string
\* when the path is missing, also when the path is removed between the stat of
\* the rotation check and the reopen.
C20_MissingFileIsTransient ==
    obs.op = "read_new_text" =>
        /\ ~obs.raised
        /\ ~path_exists(disk) => obs.ret = <<>>


-----------------------------------------------------------------------------
(* The FileManager made with an encoding name: "auto", a codec, or a name    *)
(* Python has no codec for                                                   *)

CodecBytes == {NUL, 97}

Encodings == {"auto", "utf-8", "latin-99"}

InitCodec ==
    /\ \E content \in BytesUpTo(CodecBytes, MaxCodecFile) :
          disk = Disk_init(CodecBytes, content, MaxCodecFile, 0)
    /\ \E encoding \in Encodings : fm = FileManager_init(encoding)
    /\ flt = NoWorld.flt
    /\ app = NoWorld.app
    /\ timers = NoWorld.timers
    /\ deb = NoWorld.deb
    /\ old = 0
    /\ cfg = 0
    /\ obs = Obs_init

NextCodec ==
    \/ FsAppend
    \/ ReadNewText
    \/ ReadEntireFile

SpecCodec == InitCodec /\ [][NextCodec]_vars

-----------------------------------------------------------------------------
(* Properties of the offset *)

\* C22: when read_new_text or read_entire_file has returned and the path
\* exists (the call has seen a size), the offset is at most the size of the
\* file the handle holds open.
C22_OffsetWithinFile ==
    (obs.op \in {"read_new_text", "read_entire_file"} /\ fm._fh # 0 /\ path_exists(disk)) =>
        fm._pos <= fstat_size(disk, fm._fh)

\* a read that found the file cut below the offset and reset the offset
C22_Witness ==
    /\ obs.op = "read_new_text"
    /\ fm._fh # 0
    /\ obs.pre_fm._fh = fm._fh
    /\ obs.pre_fm._pos > fstat_size(disk, fm._fh)
    /\ fm._pos = fstat_size(disk, fm._fh)
    /\ fm._pos > 0


-----------------------------------------------------------------------------
(* The viewer switched to another file (File > Open): the path of the        *)
(* FileManager is replaced, so disk.path_ino becomes the inode of the file   *)
(* picked                                                                    *)

\* _open_file(): the dialog returns the path of another file, of any content
OpenFile ==
    /\ disk.used < MaxInode
    /\ \E content \in BytesUpTo(ViewBytes, MaxSwitchFile) :
          \E d \in {[disk EXCEPT !.path_ino = disk.used + 1, !.used = @ + 1,
                                 !.files[disk.used + 1] = content]} :
              \E w \in {_open_path(World, d, FALSE)} :
                  /\ SetWorld(w)
                  /\ disk' = Reclaim(d, w.fm)
    /\ obs' = [obs EXCEPT !.op = "open_path", !.ret = <<>>, !.data = <<>>,
                          !.pre_fm = fm, !.pre_app = app, !.polls = 0,
                          !.changed = FALSE]
    /\ UNCHANGED <<old, cfg>>

InitSwitch ==
    /\ \E content \in BytesUpTo(ViewBytes, MaxSwitchFile) :
          disk = Disk_init(ViewBytes, content, MaxSwitchFile, 0)
    /\ \E path_given \in BOOLEAN :
          \E w \in {LogViewerApp_new(disk, path_given, DEFAULT_ENCODING)} :
              /\ fm = w.fm
              /\ flt = w.flt
              /\ app = w.app
              /\ timers = w.timers
              /\ deb = w.deb
    /\ old = 0
    /\ cfg = 0
    /\ obs = Obs_init

NextSwitch ==
    \/ FsAppend
    \/ Poll
    \/ FilterEdit
    \/ TimerFire
    \/ OpenFile

SpecSwitch == InitSwitch /\ [][NextSwitch]_vars

\* C23: when _open_path has returned, the FileManager holds the new file open
\* with its identity and the offset at its end, no filter is in force, and
\* the view and the line buffer hold the text of the new file and nothing
\* else; the polls that follow add what is appended to the new file.
C23_SwitchAbandonsOldFile ==
    /\ obs.op = "open_path" =>
          /\ fm._fh = disk.path_ino
          /\ fm._inode = disk.path_ino
          /\ fm._pos = getsize(disk)
          /\ flt.current_filter = <<>>
          /\ app._filtered_lines = <<>>
          /\ app.text = decode(disk.files[disk.path_ino], fm.encoding)
          /\ app._line_buffer = splitlines(app.text)
    /\ (obs.op = "poll" /\ flt.current_filter = <<>> /\ timers.pending = {}) =>
          /\ fm._fh = disk.path_ino
          /\ app.text = decode(disk.files[disk.path_ino], fm.encoding)
          /\ Concat(app._line_buffer) = app.text

\* the switch from a filtered view of a file with content to another file
\* with other content
C23_Witness ==
    /\ obs.op = "open_path"
    /\ obs.pre_app._filtered_lines # <<>>
    /\ obs.pre_app._line_buffer # <<>>
    /\ obs.pre_fm._pos > 0
    /\ app.text # <<>>
    /\ app.text # Concat(obs.pre_app._line_buffer)


-----------------------------------------------------------------------------
(* The filter history over a long session.  Filter texts are told apart only *)
(* by equality, so the k-th text that is new to the session is <<k>>:        *)
(* obs.fresh counts the texts used so far and obs.calls the calls made.      *)

\* set_filter(text) with the empty text, a text used before, or a new one
HistorySetFilter ==
    /\ obs.calls < MaxHistoryCalls
    /\ \E text \in {<<>>} \cup {<<k>> : k \in 1..(obs.fresh + 1)} :
          \E r \in {set_filter(flt, text, "None", <<>>)} :
              /\ flt' = r.flt
              /\ obs' = [obs EXCEPT !.op = "set_filter", !.pre_flt = flt,
                                    !.arg = [text |-> text, mode |-> "None",
                                             case_sensitive |-> <<>>],
                                    !.changed = r.ret,
                                    !.calls = @ + 1,
                                    !.fresh = IF text = <<obs.fresh + 1>> THEN @ + 1 ELSE @]
    /\ UNCHANGED <<disk, fm, app, timers, deb, old, cfg>>

\* clear_filter()
HistoryClearFilter ==
    /\ obs.calls < MaxHistoryCalls
    /\ flt' = clear_filter(flt)
    /\ obs' = [obs EXCEPT !.op = "clear_filter", !.pre_flt = flt, !.changed = FALSE,
                          !.arg = [text |-> <<>>, mode |-> "None", case_sensitive |-> <<>>],
                          !.calls = @ + 1]
    /\ UNCHANGED <<disk, fm, app, timers, deb, old, cfg>>

NextHistory ==
    \/ HistorySetFilter
    \/ HistoryClearFilter

SpecHistory == InitFilter /\ [][NextHistory]_vars

InHistory(h, text) == \E i \in 1..Len(h) : h[i] = text

\* C24: the filter history never holds the empty string, never holds the same
\* text twice, and never holds more than max_history (20) entries.
C24_HistoryWellFormed ==
    /\ ~InHistory(flt.filter_history, <<>>)
    /\ \A i, j \in 1..Len(flt.filter_history) :
          flt.filter_history[i] = flt.filter_history[j] => i = j
    /\ Len(flt.filter_history) <= MAX_FILTER_HISTORY

\* a new text arrives when the history is full, and one set again is already there
C24_Witness ==
    /\ obs.op = "set_filter"
    /\ Len(obs.pre_flt.filter_history) = MAX_FILTER_HISTORY
    /\ obs.arg.text # <<>>
    /\ ~InHistory(obs.pre_flt.filter_history, obs.arg.text)
    /\ Len(flt.filter_history) = MAX_FILTER_HISTORY
    /\ flt.filter_history[1] = obs.arg.text


\* C25: the history is ordered most recent first by first insertion: a text
\* not yet in it goes to the front, a text already in it keeps its place, and
\* when the front insertion overflows max_history the entry at the end, the
\* oldest, is the one dropped.
C25_HistoryOrder ==
    /\ obs.op = "set_filter" =>
          IF obs.arg.text = <<>> \/ InHistory(obs.pre_flt.filter_history, obs.arg.text)
          THEN flt.filter_history = obs.pre_flt.filter_history
          ELSE /\ flt.filter_history[1] = obs.arg.text
               /\ Len(flt.filter_history) =
                     Min2(Len(obs.pre_flt.filter_history) + 1, MAX_FILTER_HISTORY)
               /\ \A i \in 2..Len(flt.filter_history) :
                     flt.filter_history[i] = obs.pre_flt.filter_history[i - 1]
    /\ obs.op = "clear_filter" => flt.filter_history = obs.pre_flt.filter_history

\* after an overflow has dropped the first text, the text now oldest is set
\* again and stays at the end
C25_Witness ==
    /\ obs.op = "set_filter"
    /\ obs.changed
    /\ Len(obs.pre_flt.filter_history) = MAX_FILTER_HISTORY
    /\ ~InHistory(obs.pre_flt.filter_history, <<1>>)
    /\ obs.arg.text = obs.pre_flt.filter_history[MAX_FILTER_HISTORY]
    /\ flt.current_filter = obs.arg.text
    /\ flt.filter_history[MAX_FILTER_HISTORY] = obs.arg.text


\* C26: for a non-empty pattern without error, matches(line) is the reference
\* predicate of the current mode on the line and the pattern, both folded to
\* lower case unless case_sensitive: Contains is substring, StartsWith is
\* prefix at position 0, EndsWith is suffix, NotContains is the negation of
\* Contains, and a mode that is none of MODES is Contains.
C26_MatchesReference ==
    (/\ flt.current_filter # <<>>
     /\ flt.last_error = "None"
     /\ flt.current_mode \notin {"regex", "exact"}) =>
        \A line \in Lines :
            LET fold(s) == IF flt.case_sensitive THEN s
                           ELSE [i \in 1..Len(s) |-> LowerChar(s[i])]
                at(l, p, k) == \A j \in 1..Len(p) : l[k + j] = p[j]
                sub(l, p) == \E k \in 0..(Len(l) - Len(p)) : at(l, p, k)
                pre(l, p) == Len(p) <= Len(l) /\ at(l, p, 0)
                suf(l, p) == Len(p) <= Len(l) /\ at(l, p, Len(l) - Len(p))
                ref(l, p) == CASE flt.current_mode = "starts_with" -> pre(l, p)
                               [] flt.current_mode = "ends_with" -> suf(l, p)
                               [] flt.current_mode = "not_contains" -> ~sub(l, p)
                               [] OTHER -> sub(l, p)
            IN matches(flt, line) = ref(fold(line), fold(flt.current_filter))

\* StartsWith "a" under case sensitivity: "aA" matches, "Aa", which holds the
\* pattern further on, does not
C26_Witness ==
    /\ obs.op = "set_filter"
    /\ flt.current_mode = "starts_with"
    /\ flt.case_sensitive
    /\ flt.current_filter = <<97>>
    /\ flt.last_error = "None"
    /\ matches(flt, <<97, 65>>)
    /\ ~matches(flt, <<65, 97>>)

\* C27: in Exact mode a line matches when it equals the pattern once its
\* trailing line terminator is stripped, under the same case rule: a buffered
\* line "foo\n" matches the pattern "foo".
C27_ExactStripsTerminator ==
    (/\ flt.current_mode = "exact"
     /\ flt.current_filter # <<>>
     /\ flt.last_error = "None") =>
        \A i \in 1..Len(app._line_buffer) :
            LET fold(s) == IF flt.case_sensitive THEN s
                           ELSE [k \in 1..Len(s) |-> LowerChar(s[k])]
                body(l) == IF l # <<>> /\ IsLineBreak(l[Len(l)])
                           THEN SubSeq(l, 1, Len(l) - 1) ELSE l
            IN matches(flt, app._line_buffer[i]) =
                  (fold(body(app._line_buffer[i])) = fold(flt.current_filter))

\* C28: with an empty filter text matches(line) is true for every line, in
\* every mode, under either case setting and whatever the history holds.
C28_EmptyFilterMatchesAll ==
    flt.current_filter = <<>> => \A line \in Lines : matches(flt, line)

\* the filter is emptied while Regex mode is in force and its pattern did not
\* compile, with earlier texts in the history
C28_Witness ==
    /\ obs.op \in {"set_filter", "clear_filter"}
    /\ flt.current_filter = <<>>
    /\ flt.current_mode = "regex"
    /\ obs.pre_flt.last_error # "None"
    /\ flt.filter_history # <<>>
    /\ matches(flt, <<LPAREN>>)


-----------------------------------------------------------------------------
(* The projection of FileUpdater.py.  The log is one whose every line        *)
(* matches the filter in force, so that matches(line) is true for each       *)
(* buffered line and the projection shows how the buffer is numbered.        *)

\* _rebuild_view of FileUpdater.py: for i, line in enumerate(_line_buffer, 1),
\* (i, line) is stored for each matching line
FileUpdater_rebuild_view(o) ==
    [o EXCEPT !._filtered_lines = [i \in 1..Len(o._line_buffer) |-> <<i, o._line_buffer[i]>>]]

\* the debounced rebuild after a filter edit, or _clear_filter, runs
OldRebuildView ==
    /\ old' = [FileUpdater_rebuild_view(old) EXCEPT !.op = "rebuild"]
    /\ UNCHANGED <<disk, fm, flt, app, timers, deb, cfg, obs>>

NextNumbering ==
    \/ OldAppend
    \/ OldSetMaxLines
    \/ OldRebuildView

SpecNumbering == InitBuffer /\ [][NextNumbering]_vars

\* C29: the original line number attached to a retained line never changes and
\* is never given to a different line, also after older lines have been
\* evicted: a number present in the projection before and after a step stands
\* for the same line.
C29_LineNumbersStable ==
    [][\A i \in 1..Min2(Len(old._filtered_lines), Len(old'._filtered_lines)) :
          old._filtered_lines[i][1] = old'._filtered_lines[i][1] =>
              old._filtered_lines[i][2] = old'._filtered_lines[i][2]]_vars


-----------------------------------------------------------------------------
(* The poll loop.  timers.poll is the interval of the pending _poll callback *)
(* (0: none pending); app.refresh_ms is the IntVar behind the refresh        *)
(* spinbox, <<>> when the spinbox holds no number.  obs.tick flips at every  *)
(* tick of the timer.                                                       *)

\* _toggle_pause()
_toggle_pause(w) ==
    IF ~w.app.paused
    THEN _set_status([w EXCEPT !.app.paused = TRUE], "Paused", <<>>, "None")
    ELSE _set_status([w EXCEPT !.app.paused = FALSE], "Running", <<>>, "None")

\* what the refresh spinbox is made to hold
RefreshValues == {<<>>, <<50>>, <<MIN_REFRESH_MS>>, <<2000>>}

\* the pending _poll callback fires; the path may vanish while the call is
\* between its stat and its reopen
Tick ==
    /\ timers.poll # 0
    /\ \E race \in BOOLEAN :
          /\ race => /\ fm._fh # 0
                     /\ path_exists(disk)
                     /\ rotated(fm, disk.path_ino)
                     /\ disk.events < disk.max_events
          /\ \E r \in {_poll([World EXCEPT !.timers.poll = 0],
                             [disk EXCEPT !.race = race])} :
                /\ SetWorld(r.w)
                /\ obs' = [obs EXCEPT !.op = "poll", !.ret = <<>>, !.data = <<>>,
                                      !.raised = r.raised, !.tick = ~@]
                /\ disk' = Reclaim(IF race THEN [disk EXCEPT !.path_ino = 0,
                                                             !.events = @ + 1]
                                   ELSE disk, r.w.fm)
    /\ UNCHANGED <<old, cfg>>

\* the Pause button
TogglePause ==
    /\ SetWorld(_toggle_pause(World))
    /\ obs' = [obs EXCEPT !.op = "toggle_pause", !.raised = FALSE,
                          !.pre_fm = fm, !.pre_app = LogViewerApp_init,
                          !.missed = IF app.paused /\ fm._fh # 0 /\ path_exists(disk)
                                     THEN getsize(disk) - fm._pos ELSE 0]
    /\ UNCHANGED <<disk, old, cfg>>

\* the refresh spinbox is edited
RefreshEdit ==
    /\ \E v \in RefreshValues \ {app.refresh_ms} :
          app' = [app EXCEPT !.refresh_ms = v]
    /\ obs' = [obs EXCEPT !.op = "refresh_edit", !.raised = FALSE]
    /\ UNCHANGED <<disk, fm, flt, timers, deb, old, cfg>>

\* the viewer started with a file, or with none, at a configured refresh rate
InitPoll ==
    /\ \E content \in BytesUpTo({97}, MaxPollFile) :
          disk = Disk_init({97}, content, MaxPollFile, MaxFsEvents)
    /\ \E rate \in {50, DEFAULT_REFRESH_MS}, with_file \in BOOLEAN :
          \E w \in {IF with_file
                    THEN LogViewerApp_new_at(disk, TRUE, DEFAULT_ENCODING, rate)
                    ELSE [NoWorld EXCEPT !.app.refresh_ms = <<rate>>,
                                         !.timers.poll = rate]} :
              /\ fm = w.fm
              /\ flt = w.flt
              /\ app = w.app
              /\ timers = w.timers
              /\ deb = w.deb
    /\ old = 0
    /\ cfg = 0
    /\ obs = Obs_init

NextPoll ==
    \/ Tick
    \/ TogglePause
    \/ RefreshEdit
    \/ FsAppend
    \/ FsRemove
    \/ FsCreate

SpecPoll == InitPoll /\ [][NextPoll]_vars

\* a tick as the history records it: the steps that flip obs.tick are the
\* steps of Tick, and one is possible exactly when a _poll callback is pending
TickFires ==
    /\ timers.poll # 0
    /\ obs' \in {[obs EXCEPT !.op = "poll", !.ret = <<>>, !.data = <<>>,
                             !.raised = raised, !.tick = ~@] : raised \in BOOLEAN}

\* Tk's mainloop runs a pending after() callback once its interval is over:
\* while the window exists, a tick that stays possible happens
SpecPollLive == InitPoll /\ [][NextPoll]_vars /\ WF_obs(TickFires)

\* C30: every tick of the poll timer schedules the next one, whether the
\* viewer is paused, has no file, or the read raised, with an interval of at
\* least 100 ms; so a poll is always pending and ticks keep coming.
C30_PollLoopNeverStops ==
    /\ [](obs.op = "poll" => timers.poll >= MIN_REFRESH_MS)
    /\ [][timers.poll # 0 => timers'.poll # 0]_vars
    /\ []<>(obs.tick)
    /\ []<>(~obs.tick)

\* a tick whose read raised, while the spinbox asks for 50 ms
C30_Witness ==
    /\ obs.op = "poll"
    /\ obs.raised
    /\ app.status.text = "Error: {}"
    /\ app.refresh_ms = <<50>>
    /\ timers.poll = MIN_REFRESH_MS


-----------------------------------------------------------------------------
(* Properties of the compiled pattern *)

\* C31 (as stated): after any set_filter and clear_filter calls, last_error
\* and compiled_regex are set only while the mode is Regex: in any other mode
\* both are None.
C31_RegexStateOnlyInRegexMode ==
    flt.current_mode # "regex" =>
        /\ flt.compiled_regex = NoRegex
        /\ flt.last_error = "None"

\* C32 (as stated): in Regex mode with a non-empty pattern that compiles,
\* matches(line) is an unanchored search of the current pattern, ignoring case
\* unless case_sensitive, also after calls that change only the mode or only
\* the case sensitivity.
C32_RegexMatchesCurrentPattern ==
    (/\ flt.current_mode = "regex"
     /\ flt.current_filter # <<>>
     /\ re_error(flt.current_filter) = "None") =>
        \A line \in Lines :
            matches(flt, line) =
                re_search([compiled |-> TRUE, pattern |-> flt.current_filter,
                           ignorecase |-> ~flt.case_sensitive], line)


-----------------------------------------------------------------------------
(* The view as a function of the buffer and the filter *)

\* C33 (as stated): whenever no debounced rebuild is pending, the displayed
\* lines are exactly the buffered lines that match the current filter (text,
\* mode and case sensitivity), in buffer order.
C33_ViewIsFilteredBuffer ==
    timers.pending = {} =>
        app.text = Concat(SelectSeq(app._line_buffer, LAMBDA line : matches(flt, line)))


\* C34 (as stated): after every filter change the filter status indicator
\* shows the error state if and only if the current filter has a compile
\* error: an error indication raised by an invalid regex is removed as soon as
\* a valid non-empty filter is set.
C34_IndicatorTracksError ==
    obs.op \in {"edit", "mode", "case", "clear_filter"} =>
        (app.filter_status_label = "Error" <=> get_filter_info(flt).has_error)


-----------------------------------------------------------------------------
(* The truncation callback *)

\* C35 (as stated): whenever the viewer monitors a file through a FileManager,
\* a truncation callback is registered on that FileManager, whichever way the
\* file was opened (command-line path, restored last file, or file dialog).
C35_CallbackRegistered ==
    (app.file_manager /\ app.path) => fm._truncation_callback


-----------------------------------------------------------------------------
(* Files of several encodings opened one after the other by one viewer *)

\* "a" as UTF-8, as UTF-16 LE and BE with their byte order marks, and as UTF-8
\* with a signature
EncodedFiles == {<<97>>, <<255, 254, 97, NUL>>, <<254, 255, NUL, 97>>, <<239, 187, 191, 97>>}

\* the user picks another file in the file dialog
OpenEncodedFile ==
    /\ disk.used < MaxInode
    /\ \E content \in EncodedFiles :
          \E d \in {[disk EXCEPT !.path_ino = disk.used + 1, !.used = @ + 1,
                                 !.files[disk.used + 1] = content]} :
              \E w \in {_open_path(World, d, FALSE)} :
                  /\ SetWorld(w)
                  /\ disk' = Reclaim(d, w.fm)
    /\ obs' = [obs EXCEPT !.op = "open_path", !.ret = <<>>, !.data = <<>>,
                          !.pre_fm = fm, !.pre_app = LogViewerApp_init, !.polls = 0,
                          !.changed = FALSE]
    /\ UNCHANGED <<old, cfg>>

InitReopen ==
    /\ \E content \in EncodedFiles :
          disk = Disk_init({97, NUL}, content, MaxEncodedFile, 0)
    /\ \E path_given \in BOOLEAN :
          \E w \in {LogViewerApp_new(disk, path_given, DEFAULT_ENCODING)} :
              /\ fm = w.fm
              /\ flt = w.flt
              /\ app = w.app
              /\ timers = w.timers
              /\ deb = w.deb
    /\ old = 0
    /\ cfg = 0
    /\ obs = Obs_init

NextReopen ==
    \/ FsAppend
    \/ Poll
    \/ OpenEncodedFile

SpecReopen == InitReopen /\ [][NextReopen]_vars

\* C36 (as stated): opening a file through _open_path when a FileManager
\* already exists detects the encoding anew from the file opened (its byte
\* order mark, UTF-8 without one) and does not keep the encoding determined
\* for the file opened before.
C36_ReopenDetectsEncoding ==
    obs.op = "open_path" =>
        \E enc \in {_encoding_from_bom(disk.files[disk.path_ino])} :
            fm.encoding = IF enc # "None" THEN enc ELSE "utf-8"


-----------------------------------------------------------------------------
(* Pause and resume while the file grows.  obs.missed is the number of bytes *)
(* that were waiting in the file when the viewer was resumed.                *)

InitPause ==
    /\ \E content \in BytesUpTo(ViewBytes, MaxPauseFile) :
          disk = Disk_init(ViewBytes, content, MaxPauseFile, 0)
    /\ \E path_given \in BOOLEAN :
          \E w \in {LogViewerApp_new(disk, path_given, DEFAULT_ENCODING)} :
              /\ fm = w.fm
              /\ flt = w.flt
              /\ app = w.app
              /\ timers = w.timers
              /\ deb = w.deb
    /\ old = 0
    /\ cfg = 0
    /\ obs = Obs_init

NextPause ==
    \/ FsAppend
    \/ Poll
    \/ TogglePause

SpecPause == InitPause /\ [][NextPause]_vars

\* C37: a poll tick of the paused viewer reads nothing and leaves the offset,
\* the line buffer and the view as they were; a poll of the running viewer
\* delivers every byte appended since the last read, those appended during a
\* pause included, so that the view is the file's text, nothing lost and
\* nothing shown twice.
C37_PauseLosesNothing ==
    /\ (obs.op = "poll" /\ app.paused) =>
          /\ obs.ret = <<>>
          /\ fm.opened = 0
          /\ fm._fh = obs.pre_fm._fh
          /\ fm._pos = obs.pre_fm._pos
          /\ app._line_buffer = obs.pre_app._line_buffer
          /\ app.text = obs.pre_app.text
    /\ (obs.op = "poll" /\ ~app.paused) =>
          /\ obs.ret = decode(SubSeq(disk.files[fm._fh], obs.pre_fm._pos + 1,
                                     Len(disk.files[fm._fh])), fm.encoding)
          /\ fm._pos = getsize(disk)
          /\ app.text = decode(disk.files[fm._fh], fm.encoding)
          /\ Concat(app._line_buffer) = app.text
    /\ app.text = decode(SubSeq(disk.files[fm._fh], 1, fm._pos), fm.encoding)

\* the first poll after a resume, with two bytes appended during the pause
C37_Witness ==
    /\ obs.op = "poll"
    /\ ~app.paused
    /\ obs.pre_app.status.text = "Running"
    /\ obs.missed >= 2
    /\ Len(obs.ret) >= obs.missed
    /\ obs.pre_fm._pos > 0


-----------------------------------------------------------------------------
(* Lines and the chunks they arrive in *)

\* C38 (as stated): the buffer's entries are, one for one, the
\* terminator-delimited lines of the text read so far, however the writer's
\* appends fall between polls: a line read in two parts by two polls is one
\* entry.
C38_BufferEntriesAreLines ==
    app._line_buffer = splitlines(Concat(app._line_buffer))


\* C39 (as stated): in EndsWith mode a buffered line whose text before its
\* line terminator ends with the filter text is a match: the stored terminator
\* does not prevent it.
C39_EndsWithIgnoresTerminator ==
    (/\ flt.current_mode = "ends_with"
     /\ flt.current_filter # <<>>
     /\ flt.last_error = "None") =>
        \A i \in 1..Len(app._line_buffer) :
            LET fold(s) == IF flt.case_sensitive THEN s
                           ELSE [k \in 1..Len(s) |-> LowerChar(s[k])]
                body(l) == IF l # <<>> /\ IsLineBreak(l[Len(l)])
                           THEN SubSeq(l, 1, Len(l) - 1) ELSE l
                suf(l, p) == /\ Len(p) <= Len(l)
                             /\ \A j \in 1..Len(p) : l[Len(l) - Len(p) + j] = p[j]
            IN suf(fold(body(app._line_buffer[i])), fold(flt.current_filter)) =>
                  matches(flt, app._line_buffer[i])

-----------------------------------------------------------------------------
(* ConfigManager (src/src/managers/config_manager.py)                       *)
(*                                                                         *)
(* A dict is a function from keys to values.  The class attribute          *)
(* DEFAULT_CONFIG is a dict of dicts: cfg.DEFAULT_CONFIG holds the current   *)
(* contents of its nested dict objects, one object per section.  An         *)
(* instance's self.config is a top-level dict whose entry for a section is  *)
(* <<>> when it refers to the class attribute's nested object of that       *)
(* section (dict.copy() is shallow) and <<d>> when it holds a dict of its   *)
(* own.  cfg.file is <<>> while the config file does not exist, and <<j>>    *)
(* when it holds the JSON document j.                                       *)

MaxInstances == 2   \* ConfigManager objects constructed in one process

\* the sections "window" and "filter" of the class attribute, as written in the source
DEFAULT_CONFIG ==
    [window |-> [width |-> 1000, height |-> 1000],
     filter |-> [max_history |-> 20]]

\* a fresh shallow copy of the class attribute: every section refers to the shared object
DEFAULT_CONFIG_copy(c) == [sec \in DOMAIN c.DEFAULT_CONFIG |-> <<>>]

\* self.config[sec], dereferenced
section_of(c, sec) ==
    IF c.config[sec] = <<>> THEN c.DEFAULT_CONFIG[sec] ELSE c.config[sec][1]

\* what json.dump(self.config) writes
json_dump(c) == [sec \in DOMAIN c.config |-> section_of(c, sec)]

\* save_config(): write the current configuration to the config file
save_config(c) == [c EXCEPT !.file = <<json_dump(c)>>]

\* _merge_config(): merge loaded into self.config, recursing into the dicts
\* self.config already holds, in place
_merge_config(c, loaded) ==
    [c EXCEPT
        !.DEFAULT_CONFIG =
            [sec \in DOMAIN @ |->
                IF sec \in DOMAIN loaded /\ sec \in DOMAIN c.config /\ c.config[sec] = <<>>
                THEN loaded[sec] @@ @[sec]
                ELSE @[sec]],
        !.config =
            [sec \in DOMAIN c.config \cup DOMAIN loaded |->
                IF sec \notin DOMAIN loaded THEN c.config[sec]
                ELSE IF sec \notin DOMAIN c.config THEN <<loaded[sec]>>
                ELSE IF c.config[sec] = <<>> THEN <<>>
                ELSE <<loaded[sec] @@ c.config[sec][1]>>]]

\* load_config(): merge the config file, when it exists
load_config(c) ==
    IF c.file = <<>> THEN c ELSE _merge_config(c, c.file[1])

\* ConfigManager.__init__()
ConfigManager_new(c) ==
    load_config([c EXCEPT !.config = DEFAULT_CONFIG_copy(c)])

\* get(key_path): <<value>>, or <<>> for the default None
ConfigManager_get(c, keys) ==
    IF keys[1] \in DOMAIN c.config /\ keys[2] \in DOMAIN section_of(c, keys[1])
    THEN <<section_of(c, keys[1])[keys[2]]>>
    ELSE <<>>

\* set(key_path, value): keys is key_path.split('.')
ConfigManager_set(c, keys, value) ==
    IF Len(keys) = 1
    THEN [c EXCEPT !.config = (keys[1] :> <<value>>) @@ @]
    ELSE IF keys[1] \notin DOMAIN c.config
    THEN [c EXCEPT !.config = (keys[1] :> <<(keys[2] :> value)>>) @@ @]
    ELSE IF c.config[keys[1]] = <<>>
    THEN [c EXCEPT !.DEFAULT_CONFIG[keys[1]] = (keys[2] :> value) @@ @]
    ELSE [c EXCEPT !.config[keys[1]] = <<(keys[2] :> value) @@ @[1]>>]

\* reset_to_defaults()
reset_to_defaults(c) ==
    save_config([c EXCEPT !.config = DEFAULT_CONFIG_copy(c)])

\* import_config(filepath): loaded is the JSON document of the file
import_config(c, loaded) == save_config(_merge_config(c, loaded))

\* key paths and values the callers set, and the JSON documents they import
KeyPaths == {<<"window", "width">>, <<"window", "height">>, <<"filter", "max_history">>}
SetValues == {1000, 1200}
SectionValues == {[width |-> 1200, height |-> 1000]}
ImportFiles == {[window |-> [width |-> 1200]], [filter |-> [max_history |-> 50]]}

\* the process constructs a ConfigManager, which replaces the one in use
ConfigNew ==
    /\ cfg.instances < MaxInstances
    /\ cfg' = [ConfigManager_new(cfg) EXCEPT !.instances = @ + 1, !.op = "new"]
    /\ UNCHANGED <<disk, fm, flt, app, timers, deb, old, obs>>

ConfigSet ==
    /\ cfg.instances > 0
    /\ \/ \E keys \in KeyPaths, value \in SetValues :
             cfg' = [ConfigManager_set(cfg, keys, value) EXCEPT !.op = "set"]
       \/ \E value \in SectionValues :
             cfg' = [ConfigManager_set(cfg, <<"window">>, value) EXCEPT !.op = "set"]
    /\ UNCHANGED <<disk, fm, flt, app, timers, deb, old, obs>>

ConfigLoad ==
    /\ cfg.instances > 0
    /\ cfg' = [load_config(cfg) EXCEPT !.op = "load"]
    /\ UNCHANGED <<disk, fm, flt, app, timers, deb, old, obs>>

ConfigImport ==
    /\ cfg.instances > 0
    /\ \E loaded \in ImportFiles :
          cfg' = [import_config(cfg, loaded) EXCEPT !.op = "import"]
    /\ UNCHANGED <<disk, fm, flt, app, timers, deb, old, obs>>

ConfigReset ==
    /\ cfg.instances > 0
    /\ cfg' = [reset_to_defaults(cfg) EXCEPT !.op = "reset_to_defaults"]
    /\ UNCHANGED <<disk, fm, flt, app, timers, deb, old, obs>>

\* the interpreter has loaded the class; the first instance is under construction
InitConfig ==
    /\ disk = Disk_init({}, <<>>, 0, 0)
    /\ fm = NoWorld.fm
    /\ flt = NoWorld.flt
    /\ app = NoWorld.app
    /\ timers = NoWorld.timers
    /\ deb = NoWorld.deb
    /\ old = 0
    /\ cfg = [DEFAULT_CONFIG |-> DEFAULT_CONFIG, config |-> DEFAULT_CONFIG_copy([DEFAULT_CONFIG |-> DEFAULT_CONFIG]),
              file |-> <<>>, instances |-> 0, op |-> "init"]
    /\ obs = Obs_init

NextConfig ==
    \/ ConfigNew
    \/ ConfigSet
    \/ ConfigLoad
    \/ ConfigImport
    \/ ConfigReset

SpecConfig == InitConfig /\ [][NextConfig]_vars

\* C40: after reset_to_defaults, every configuration key reads its original
\* default value, whatever set, load, import and construction calls came before
C40_ResetRestoresDefaults ==
    cfg.op = "reset_to_defaults" =>
        \A sec \in DOMAIN DEFAULT_CONFIG : \A key \in DOMAIN DEFAULT_CONFIG[sec] :
            ConfigManager_get(cfg, <<sec, key>>) = <<DEFAULT_CONFIG[sec][key]>>

=============================================================================
